---- MODULE Spec2Model ----
(***************************************************************************)
(* Model of the P2P handshake server: the peer registry (peer.rs), the     *)
(* UDP dispatcher and its handlers, run() and its heartbeat, sweep and     *)
(* stats tasks, the debounced peer-list broadcast (server.rs), and the     *)
(* routing table and forward_message (router.rs).                          *)
(*                                                                         *)
(* Every step of the model is one lock-protected section (or one socket    *)
(* send) of the Rust code; the dispatcher and the tasks interleave between *)
(* such sections, as tokio tasks do. Each specification runs the tasks it  *)
(* names; a task it does not name takes no step in it. Socket sends        *)
(* succeed, except the Ping of the heartbeat, the sends of the router's    *)
(* broadcast and the Ack where the specification lets them fail.           *)
(*                                                                         *)
(* SpecRoutes runs routed delivery with routes learnt from peer lists,     *)
(* SpecRendezvous the P2PConnect broker, SpecTable the table operations    *)
(* called by an embedding task, SpecCache the message cache with its       *)
(* cleanup task, SpecAck the Ack of handle_message, SpecDeparture the      *)
(* peers that leave. The variables b1, s1_*, u_call, r_call, l2, handled,  *)
(* trig, d_pre and ack_res are histories: no step of the program reads     *)
(* them.                                                                   *)
(***************************************************************************)
EXTENDS Integers, Sequences, FiniteSets, TLC

(* ----------------------------- bounds --------------------------------- *)
\* config.max_connections, chosen small
MaxConnections == 2
\* Peer records (fresh Uuid::new_v4 ids) created in one run
MaxRecords == 3
\* datagrams the dispatcher receives in one run: with every task running,
\* with the dispatcher and the sweep alone, and with the dispatcher alone
MaxDatagrams == 2
RaceDatagrams == 4
\* datagrams received in the discovery specification
DiscoveryDatagrams == 3
\* datagrams received while the heartbeat runs
HeartbeatDatagrams == 2
\* bits kept of the u32 hop counters, and the max_hops of the envelopes
HopBits == 3
MaxHops == 2
\* datagrams received, and calls by the other task, in the router specification
RouterDatagrams == 3
MaxTaskCalls == 1
\* datagrams received in the specification of routed delivery
RoutesDatagrams == 3
\* datagrams received in the specification of the rendezvous broker
RendezvousDatagrams == 3
\* the largest distance passed to update_routing_table
MaxDistance == 2
SerialDatagrams == 5
\* datagrams received in the runs of the Ack
AckDatagrams == 3
\* datagrams received in the runs of the departures
DepartureDatagrams == 3

(* ----------------------------- values --------------------------------- *)
Addrs == {"a1", "a2", "a3"}
\* the clients of the runs in which every task runs
TwoAddrs == {"a1", "a2"}
\* NodeIds that clients claim; pending ids of records are 1..MaxRecords
ClaimIds == {101, 102}
\* Option<Uuid>::None, and "no record"
None == 0
NoAddr == "none"
\* node_info: None
NoInfo == "none"
\* config.network_id of the server
NetworkId == "test"
NetIds == {"test", "other"}

Range(f) == {f[x] : x \in DOMAIN f}
Without(f, k) == [x \in DOMAIN f \ {k} |-> f[x]]
With(f, k, v) == [x \in DOMAIN f \cup {k} |-> IF x = k THEN v ELSE f[x]]

(* ---------------------------- messages -------------------------------- *)
\* an inbound datagram: message_type, and the payload fields the handlers read
Msg(t, id, nid, valid, success, ack) ==
    [type |-> t, id |-> id, nid |-> nid, valid |-> valid, success |-> success,
     requires_ack |-> ack]
NoMsg == Msg("none", None, NoInfo, FALSE, FALSE, FALSE)

\* clients send the handshake with new_with_ack; the last one has an empty name
\* (valid = FALSE) and the network_id of another network
HandshakeRequests ==
    {Msg("HandshakeRequest", i, NetworkId, TRUE, FALSE, TRUE) : i \in ClaimIds}
    \cup {Msg("HandshakeRequest", 101, "other", TRUE, FALSE, TRUE),
          Msg("HandshakeRequest", 101, "other", FALSE, FALSE, TRUE)}
HandshakeResponses ==
    {Msg("HandshakeResponse", 101, NetworkId, TRUE, TRUE, FALSE),
     Msg("HandshakeResponse", 102, "other", TRUE, TRUE, FALSE),
     Msg("HandshakeResponse", 101, NetworkId, TRUE, FALSE, FALSE)}
Disconnects == {Msg("Disconnect", None, NoInfo, TRUE, FALSE, FALSE)}
Pings == {Msg("Ping", None, NoInfo, TRUE, FALSE, FALSE)}
\* Message::discovery_request: no acknowledgement is asked for
DiscoveryRequests == {Msg("DiscoveryRequest", None, NoInfo, TRUE, FALSE, FALSE)}
Inbound == HandshakeRequests \cup HandshakeResponses \cup Disconnects \cup Pings

\* an outbound datagram
Out(to, t, err, id, ok, list) ==
    [to |-> to, type |-> t, err |-> err, id |-> id, success |-> ok, list |-> list]
\* Message::ack: ack_for is the id of the datagram, which the model names by
\* the datagram itself
AckTo(a, m) ==
    [to |-> a, type |-> "Ack", err |-> "", id |-> None, success |-> FALSE,
     list |-> {}, ack_for |-> m]
ErrorTo(a, e, id) == Out(a, "Error", e, id, FALSE, {})
HandshakeResponseTo(a, ok) == Out(a, "HandshakeResponse", "", None, ok, {})
PongTo(a) == Out(a, "Pong", "", None, FALSE, {})
DiscoveryResponseTo(a, l) == Out(a, "DiscoveryResponse", "", None, FALSE, l)
\* the P2PConnect the broker sends: peer_id and peer_addr of the other side
P2PConnectTo(a, id, peer_addr) ==
    [to |-> a, type |-> "P2PConnect", err |-> "", id |-> id, success |-> FALSE,
     list |-> {}, peer_addr |-> peer_addr]
\* a P2PConnect datagram (Message::initiate_p2p): the peer_id of its payload,
\* None when it is missing or no Uuid
P2PConnectMsg(target) ==
    [type |-> "P2PConnect", id |-> None, nid |-> NoInfo, valid |-> target # None,
     success |-> FALSE, requires_ack |-> FALSE, target |-> target]
P2PConnects == {P2PConnectMsg(t) : t \in {None, 101, 102, 103}}

(* ------------------------- routed messages ----------------------------- *)
\* hop_count and max_hops are u32; the model keeps HopBits bits of them
HopLimit == 2 ^ HopBits
\* the id of the server's own NodeInfo
LocalNodeId == 100
RouteIds == {1, 2}
\* RoutedMessage: the fields forward_message reads
Envelope(r, s, d, h, m) ==
    [route_id |-> r, source_node |-> s, destination_node |-> d, hop_count |-> h,
     max_hops |-> m]
NoEnv == Envelope(0, None, None, 0, 0)
\* envelopes off the wire: to the client 101 with hop counts around max_hops
\* and at the largest value of the type, and to the server and to a node
\* nobody knows with the last hop count that passes
Envelopes ==
    {Envelope(r, 102, 101, h, MaxHops) :
        r \in RouteIds, h \in {MaxHops - 1, MaxHops, MaxHops + 1, HopLimit - 1}}
    \cup {Envelope(r, 102, d, MaxHops - 1, MaxHops) :
             r \in RouteIds, d \in {LocalNodeId, 103}}
\* a Data datagram: a payload that parses as a RoutedMessage, or one that
\* does not (valid = FALSE)
DataMsg(e, valid) ==
    [type |-> "Data", id |-> None, nid |-> NoInfo, valid |-> valid, success |-> FALSE,
     requires_ack |-> FALSE, env |-> e]
Datas == {DataMsg(e, TRUE) : e \in Envelopes} \cup {DataMsg(NoEnv, FALSE)}
DataTo(a) == Out(a, "Data", "", None, FALSE, {})
\* envelopes of routed delivery: from the client 101 to the client 102 and to
\* a node nobody knows, and from a node that is no client to that node, all
\* with hop_count 0
RouteEnvelopes ==
    {Envelope(1, 101, 102, 0, MaxHops), Envelope(2, 101, 103, 0, MaxHops),
     Envelope(2, 104, 103, 0, MaxHops)}
\* a DiscoveryResponse datagram: the ids of a payload that parses as a list
\* of PeerInfo, or a payload that does not (valid = FALSE)
DiscoveryResponseMsg(l, valid) ==
    [type |-> "DiscoveryResponse", id |-> None, nid |-> NoInfo, valid |-> valid,
     success |-> FALSE, requires_ack |-> FALSE, list |-> l]
DiscoveryResponses ==
    {DiscoveryResponseMsg(l, TRUE) : l \in {{103}, {LocalNodeId, 101, 102}}}
    \cup {DiscoveryResponseMsg({}, FALSE)}

\* who calls forward_message: the Data arm of the dispatcher, and a task that
\* holds the Arc<MessageRouter>
Callers == {"dispatcher", "task"}
\* the locals of one call; `call` names it: the caller and its call count, and
\* `snap` keeps the address and id each peer of the broadcast had when
\* get_authenticated_peers returned
NewCall(e, n) ==
    [pc |-> "check", env |-> e, next_hop |-> None, peer |-> None, todo |-> {},
     res |-> "", call |-> n, snap |-> {}]
NoCall ==
    [pc |-> "idle", env |-> NoEnv, next_hop |-> None, peer |-> None, todo |-> {},
     res |-> "", call |-> <<>>, snap |-> {}]
\* a datagram sent by a call, or a local delivery
Outcome(f, kind, to) ==
    [call |-> f.call, route_id |-> f.env.route_id, kind |-> kind, to |-> to,
     hop_count |-> f.env.hop_count, source_node |-> f.env.source_node,
     destination_node |-> f.env.destination_node]

\* the arguments of a call of update_routing_table, and the entry the
\* destination had when it was made (NoEntry when it had none)
NoEntry == [next_hop |-> None, distance |-> 0]
UpdateCall(destination, next_hop, distance, old) ==
    [destination |-> destination, next_hop |-> next_hop, distance |-> distance,
     old |-> old]
NoUpdate == UpdateCall(None, None, 0, NoEntry)
\* a call of remove_node_routes or remove_route, and the table it found
RemovalCall(op, node_id, rt) == [op |-> op, node_id |-> node_id, before |-> rt]
NoRemoval == RemovalCall("none", None, <<>>)
\* history: what a datagram found, when nothing was recorded
NoPre == [routing_table |-> <<>>, authenticated |-> FALSE, listed |-> FALSE]

(* ----------------------------- records -------------------------------- *)
Dead == [addr |-> NoAddr, id |-> None, status |-> "Dead", nid |-> NoInfo]
NewPeer(a, u) == [addr |-> a, id |-> u, status |-> "Connecting", nid |-> NoInfo]
is_authenticated(p) == p.status = "Authenticated"
is_connected(p) == p.status \in {"Connected", "Authenticated"}

VARIABLES
    peers,                \* PeerManager.peers: Uuid -> record handle
    peers_by_addr,        \* PeerManager.peers_by_addr: SocketAddr -> record handle
    heap,                 \* the Arc<RwLock<Peer>> records, by handle
    next_uuid,            \* handle and pending id of the next Peer::new
    routing_table,        \* RoutingTable: destination -> (next_hop, distance)
    d_pc, d_addr, d_msg,  \* dispatcher: position, datagram source, message
    d_peer,               \* dispatcher: the record get_or_create_peer_by_addr returned
    d_removed,            \* dispatcher: `removed` of remove_peer
    d_sent,               \* datagrams sent while handling the current datagram
    d_res,                \* result of handle_udp_packet: "ok" or "err"
    n_recv,               \* datagrams received so far
    s_pc, s_todo, s_remove, s_cur,   \* cleanup task
    broadcast_exclude_id, \* P2PServer.broadcast_exclude_id
    b_pc,                 \* the task in P2PServer.broadcast_task, "none" when absent
    b_ex, b_todo, b_cur, b_pid,  \* locals of the broadcast task
    b_sent,               \* datagrams the broadcast task has sent
    b1,                   \* history: the capacity-refusal scenario (B1)
    s1_ok, s1_joins,      \* history: the two-joins scenario (S1)
    enable_discovery,     \* config.enable_discovery
    b_live,               \* debounce tasks spawned, neither completed nor aborted
    h_pc, h_todo,         \* heartbeat task: position, `peers` still to ping
    h_wait,               \* heartbeat task: the record whose write lock it awaits
    run_pc,               \* run(): "loop", "join" or "returned"
    shutdown_sent,        \* a value was sent on the shutdown channel
    st_stats,             \* stats task: the PeerStats it logged last
    message_cache,        \* MessageRouter.message_cache: the RouteIds seen
    cache_old,            \* the RouteIds whose cache entry is 300 seconds old or older
    fw,                   \* the calls of forward_message in progress, by caller
    fw_out,               \* what the calls of forward_message sent or delivered
    n_calls,              \* calls of forward_message begun so far, by caller
    u_call,               \* the last call of update_routing_table by an embedding task
    r_call,               \* the last removal an embedding task called, if no update
                          \* followed it, and the table it found
    l2,                   \* history: the addresses that left last, and the state a
                          \* repeated Disconnect found (L2)
    handled,              \* history: the datagrams with requires_ack that were handled
                          \* without an error, with their source
    trig,                 \* history: the exclude id of the last call of
                          \* schedule_peerlist_broadcast, now and when a timer elapsed last
    d_pre,                \* history: the routing table a HandshakeRequest found,
                          \* whether the datagram found its source Authenticated, and
                          \* whether a fan-out took its list after the source had left
    ack_res               \* history: the result of the send of the Ack for the
                          \* datagram in hand: "none", "sent" or "failed"

regVars == <<peers, peers_by_addr, next_uuid>>
dVars == <<d_pc, d_addr, d_msg, d_peer, d_removed, d_sent, d_res, n_recv>>
sVars == <<s_pc, s_todo, s_remove, s_cur>>
bVars == <<broadcast_exclude_id, b_pc, b_ex, b_todo, b_cur, b_pid, b_sent>>
\* the calls of the router's table operations from outside handle_message
kVars == <<u_call, r_call>>
\* the history of the Disconnects and of the acknowledged datagrams
lVars == <<l2, handled, trig, d_pre, ack_res>>
hVars == <<b1, s1_ok, s1_joins, kVars, lVars>>
\* the configuration, which no step writes
cVars == <<enable_discovery>>
\* what the steps of the handshake, the sweep and the fan-out leave alone
\* the account of the debounce tasks
tVars == <<b_live>>
\* the configuration, and the tasks and callers beside the dispatcher, the
\* sweep and the fan-out
hbVars == <<h_pc, h_todo, h_wait>>
rVars == <<run_pc, shutdown_sent>>
fVars == <<message_cache, cache_old, fw, fw_out, n_calls>>
yVars == <<cVars, hbVars, rVars, st_stats, fVars>>
xVars == <<tVars, yVars>>
vars == <<regVars, heap, routing_table, dVars, sVars, bVars, hVars, xVars>>

\* records some Arc still points to
LiveHandles ==
    (Range(peers) \cup Range(peers_by_addr) \cup {d_peer, d_removed, s_cur, b_cur}
        \cup b_todo \cup h_todo \cup {h_wait}
        \cup UNION {{fw[c].peer} \cup fw[c].todo : c \in Callers}) \ {None}
\* a record is dropped with its last Arc
Collect(hp, live) == [h \in DOMAIN hp |-> IF h \in live THEN hp[h] ELSE Dead]

\* the registry, the tasks and the history of a server that has just started
InitServer ==
    /\ peers = <<>> /\ peers_by_addr = <<>>
    /\ heap = [h \in 1..MaxRecords |-> Dead]
    /\ next_uuid = 1
    /\ routing_table = <<>>
    /\ d_pc = "recv" /\ d_addr = NoAddr /\ d_msg = NoMsg /\ d_peer = None
    /\ d_removed = None /\ d_sent = <<>> /\ d_res = "" /\ n_recv = 0
    /\ s_pc = "idle" /\ s_todo = {} /\ s_remove = {} /\ s_cur = None
    /\ broadcast_exclude_id = None /\ b_pc = "none" /\ b_ex = None /\ b_todo = {}
    /\ b_cur = None /\ b_pid = None /\ b_sent = {}
    /\ b1 = [phase |-> 0, addr |-> NoAddr]
    /\ s1_ok = TRUE /\ s1_joins = <<>>
    /\ b_live = 0
    /\ h_pc = "idle" /\ h_todo = {} /\ h_wait = None
    /\ run_pc = "loop" /\ shutdown_sent = FALSE
    /\ st_stats = [total_peers |-> 0, authenticated_peers |-> 0]
    /\ message_cache = {} /\ cache_old = {} /\ fw = [c \in Callers |-> NoCall]
    /\ fw_out = {} /\ n_calls = [c \in Callers |-> 0]
    /\ u_call = NoUpdate
    /\ r_call = NoRemoval
    /\ l2 = [left |-> {}, pre |-> <<>>]
    /\ handled = {}
    /\ trig = [last |-> None, fired |-> None]
    /\ ack_res = "none"
    /\ d_pre = NoPre

\* tokio::sync::RwLock<Peer> grants its locks in FIFO order: once a writer
\* waits on a record, no read or write lock on that record is granted
Granted(h) == h # h_wait
\* the locks get_authenticated_peers takes, one record of `peers` after another
AllGranted == \A h \in Range(peers) : Granted(h)

\* Config::default: enable_discovery is true
Init ==
    /\ InitServer
    /\ enable_discovery = TRUE

(* ------------------------ router.rs: RoutingTable ---------------------- *)
\* variant: a route of equal distance replaces the stored one
add_route_or_equal(rt, destination, next_hop, distance) ==
    IF destination \in DOMAIN rt /\ distance > rt[destination].distance
    THEN rt
    ELSE With(rt, destination, [next_hop |-> next_hop, distance |-> distance])
\* add_route: an entry is written when the destination has none or the new
\* distance is shorter than the stored one
add_route(rt, destination, next_hop, distance) ==
    IF destination \in DOMAIN rt /\ distance >= rt[destination].distance
    THEN rt
    ELSE With(rt, destination, [next_hop |-> next_hop, distance |-> distance])
remove_route(rt, destination) == Without(rt, destination)
\* variant: the routes through the next hop are kept
remove_routes_via_kept(rt, next_hop) == rt
remove_routes_via(rt, next_hop) ==
    [d \in {x \in DOMAIN rt : rt[x].next_hop # next_hop} |-> rt[d]]
\* variant: only the entry of the destination is removed
remove_node_routes_as_destination(rt, node_id) == remove_route(rt, node_id)
\* remove_node_routes: remove_route, then remove_routes_via, under one lock
remove_node_routes(rt, node_id) == remove_routes_via(remove_route(rt, node_id), node_id)

\* history: what the datagram received finds
PreOnReceive(a, m) ==
    [routing_table |-> IF m.type = "HandshakeRequest" THEN <<routing_table>> ELSE <<>>,
     authenticated |-> /\ a \in DOMAIN peers_by_addr
                       /\ is_authenticated(heap[peers_by_addr[a]]),
     listed |-> FALSE]
\* the record of the datagram in hand was Authenticated when the datagram
\* was received and is so no longer
SourceLeft ==
    d_pc # "recv" /\ d_pre.authenticated /\ d_peer # None
    /\ ~is_authenticated(heap[d_peer])
\* history (L2): what a Disconnect is said to leave alone, the registry, the
\* routing table, the task of the fan-out and the recorded exclude id
LeaveState ==
    [peers |-> peers, peers_by_addr |-> peers_by_addr, routing_table |-> routing_table,
     broadcast_task |-> b_pc, broadcast_exclude_id |-> broadcast_exclude_id]
\* history (L2): when the datagram received is a Disconnect of an address
\* whose last datagram was a Disconnect that was handled, the state it finds
L2OnReceive(a, m) ==
    [l2 EXCEPT !.pre = IF m.type = "Disconnect" /\ a \in l2.left
                       THEN <<LeaveState>> ELSE <<>>]
\* history: a datagram is a message with its source; the message id is read
\* only to be echoed in the Ack, and the second delivery of a datagram is the
\* receipt of the same message from the same address
HandledOnReturn ==
    IF d_msg.requires_ack /\ d_res = "ok"
    THEN handled \cup {[addr |-> d_addr, msg |-> d_msg]} ELSE handled
\* history (L2): the addresses whose last datagram was a Disconnect that was
\* handled
L2OnReturn ==
    [left |-> IF d_msg.type = "Disconnect" /\ d_res = "ok"
              THEN l2.left \cup {d_addr} ELSE l2.left \ {d_addr},
     pre |-> <<>>]

(* ------------------------ history bookkeeping -------------------------- *)
\* a retry that passes every admission check of the handshake
AdmissibleRequest(m) ==
    m.type = "HandshakeRequest" /\ m.valid /\ m.nid = NetworkId /\ m.id \notin DOMAIN peers
B1OnReceive(a, m) ==
    CASE b1.phase = 1 /\ m.type = "Disconnect" /\ a \in DOMAIN peers_by_addr
            -> [phase |-> 2, addr |-> b1.addr]
      [] b1.phase = 3 /\ a = b1.addr /\ AdmissibleRequest(m)
            -> [phase |-> 4, addr |-> b1.addr]
      [] OTHER -> [phase |-> 0, addr |-> NoAddr]
B1OnReturn ==
    CASE b1.phase = 2 -> [phase |-> 3, addr |-> b1.addr]
      [] b1.phase = 1 -> b1
      [] OTHER -> [phase |-> 0, addr |-> NoAddr]
S1Admits(m) ==
    s1_ok /\ Len(s1_joins) < 2 /\ m.type = "HandshakeRequest" /\ m.valid /\ m.nid = NetworkId

(* ------------------- server.rs: handle_udp_packet ---------------------- *)
\* peer.rs add_peer: the capacity check
AddPeerFull == Cardinality(DOMAIN peers) >= MaxConnections

\* variant: handle_message sends no Ack
HandleMessageWithoutAck(m) == "handle"
\* handle_message begins: with the Ack when the datagram asks for one, else
\* with the match on message_type
HandleMessage(m) == IF m.requires_ack THEN "ack" ELSE "handle"

\* run(): receive_from, then handle_udp_packet up to get_peer_by_addr
Receive(a, m, maxd) ==
    /\ UNCHANGED xVars
    /\ run_pc = "loop"
    /\ d_pc = "recv" /\ n_recv < maxd
    /\ n_recv' = n_recv + 1
    /\ d_addr' = a /\ d_msg' = m /\ d_sent' = <<>> /\ d_res' = "" /\ d_removed' = None
    /\ IF a \in DOMAIN peers_by_addr
       THEN d_peer' = peers_by_addr[a] /\ d_pc' = HandleMessage(m)
       ELSE d_peer' = None /\ d_pc' = "add_check"
    /\ b1' = B1OnReceive(a, m)
    /\ s1_ok' = S1Admits(m)
    /\ s1_joins' = IF S1Admits(m) THEN s1_joins ELSE <<>>
    /\ l2' = L2OnReceive(a, m)
    /\ UNCHANGED <<handled, trig>>
    /\ d_pre' = PreOnReceive(a, m)
    /\ ack_res' = "none"
    /\ UNCHANGED <<regVars, routing_table, sVars, bVars, kVars>>
    /\ heap' = Collect(heap, LiveHandles')

\* add_peer: capacity check and Peer::new
AddPeerCheck ==
    /\ UNCHANGED xVars
    /\ d_pc = "add_check"
    /\ IF AddPeerFull
       THEN /\ d_pc' = "done" /\ d_res' = "err"
            /\ b1' = IF b1.phase = 4 THEN b1
                     ELSE IF d_msg.type = "HandshakeRequest"
                          THEN [phase |-> 1, addr |-> d_addr]
                          ELSE [phase |-> 0, addr |-> NoAddr]
            /\ UNCHANGED <<d_peer, next_uuid, heap>>
       ELSE /\ next_uuid <= MaxRecords
            /\ d_pc' = "add_ins_peers" /\ d_res' = d_res
            /\ d_peer' = next_uuid
            /\ next_uuid' = next_uuid + 1
            /\ heap' = [heap EXCEPT ![next_uuid] = NewPeer(d_addr, next_uuid)]
            /\ b1' = b1
    /\ UNCHANGED <<peers, peers_by_addr, routing_table, d_addr, d_msg, d_removed, d_sent,
                   n_recv, sVars, bVars, s1_ok, s1_joins, kVars, lVars>>

\* add_peer: self.peers.write().await.insert(peer_id, peer)
AddPeerInsertPeers ==
    /\ UNCHANGED xVars
    /\ d_pc = "add_ins_peers" /\ s_pc # "scan"
    /\ peers' = With(peers, heap[d_peer].id, d_peer)
    /\ d_pc' = "add_ins_addr"
    /\ UNCHANGED <<peers_by_addr, next_uuid, heap, routing_table, d_addr, d_msg, d_peer,
                   d_removed, d_sent, d_res, n_recv, sVars, bVars, hVars>>

\* add_peer: self.peers_by_addr.write().await.insert(peer_addr, peer)
AddPeerInsertAddr ==
    /\ UNCHANGED xVars
    /\ d_pc = "add_ins_addr"
    /\ peers_by_addr' = With(peers_by_addr, d_addr, d_peer)
    /\ d_pc' = HandleMessage(d_msg)
    /\ UNCHANGED <<peers, next_uuid, routing_table, d_addr, d_msg, d_peer,
                   d_removed, d_sent, d_res, n_recv, sVars, bVars, hVars>>
    /\ heap' = Collect(heap, LiveHandles')

\* handle_message: the Ack sent before the match on message_type; a send that
\* fails (ok = FALSE) is logged and the match follows all the same
SendAck(ok) ==
    /\ UNCHANGED xVars
    /\ d_pc = "ack"
    /\ d_sent' = IF ok THEN d_sent \o <<AckTo(d_addr, d_msg)>> ELSE d_sent
    /\ d_pc' = "handle"
    /\ ack_res' = IF ok THEN "sent" ELSE "failed"
    /\ UNCHANGED <<regVars, heap, routing_table, d_addr, d_msg, d_peer, d_removed,
                   d_res, n_recv, sVars, bVars, b1, s1_ok, s1_joins, kVars, l2, handled,
                   trig, d_pre>>

Finish(res) == d_pc' = "done" /\ d_res' = res

(* --------------- peer.rs: handle_handshake_request --------------------- *)
\* HandshakeProtocol::validate_handshake_request: the payload parses, name and
\* version are non-empty
validate_handshake_request(m) == m.type = "HandshakeRequest" /\ m.valid
\* self.local_node_info.metadata.get("network_id"): the server never sets it
ExpectedNetworkId == NoInfo
\* variant: the request path compares with the metadata entry, as the
\* response path does
NetworkIdMismatchByMetadata(nid) == ExpectedNetworkId # NoInfo /\ nid # ExpectedNetworkId
\* node_info.network_id != self.local_node_info.network_id
NetworkIdMismatch(nid) == nid # NetworkId
\* variant: the duplicate check skips the key of the requesting record
NodeIdExistsElsewhere(id) == id \in DOMAIN peers /\ peers[id] # d_peer
\* self.peers.read().await.contains_key(&node_info.id)
NodeIdExists(id) == id \in DOMAIN peers

\* handle_message, HandshakeRequest arm: validation, the direct route, and
\* handle_handshake_request up to the network-id check
HandleHandshakeRequest ==
    /\ UNCHANGED xVars
    /\ d_pc = "handle" /\ d_msg.type = "HandshakeRequest"
    /\ Granted(d_peer)
    /\ IF ~validate_handshake_request(d_msg)
       THEN /\ Finish("err")
            /\ d_sent' = d_sent
            /\ UNCHANGED routing_table
       ELSE /\ routing_table' = add_route(routing_table, d_msg.id, d_msg.id, 1)
            /\ IF NetworkIdMismatch(d_msg.nid)
               THEN /\ Finish("err")
                    /\ d_sent' = d_sent
                                   \o <<ErrorTo(d_addr, "NetworkIdMismatch", None)>>
               ELSE /\ d_pc' = "hs_dup" /\ d_res' = d_res
                    /\ d_sent' = d_sent
    /\ UNCHANGED <<regVars, heap, d_addr, d_msg, d_peer, d_removed, n_recv,
                   sVars, bVars, hVars>>

\* handle_handshake_request: the duplicate-id check and the empty network_id check
HsDupCheck ==
    /\ UNCHANGED xVars
    /\ d_pc = "hs_dup"
    /\ (NodeIdExists(d_msg.id) \/ d_msg.nid = "") => Granted(d_peer)
    /\ IF NodeIdExists(d_msg.id)
       THEN /\ Finish("err")
            /\ d_sent' = d_sent \o <<ErrorTo(d_addr, "NodeIdExists", d_msg.id)>>
            /\ UNCHANGED heap
       ELSE IF d_msg.nid = ""
       THEN /\ Finish("err")
            /\ d_sent' = d_sent \o <<ErrorTo(d_addr, "MissingNetworkId", None)>>
            /\ heap' = [heap EXCEPT ![d_peer].status = "Error"]
       ELSE /\ d_pc' = "hs_update" /\ d_res' = d_res
            /\ UNCHANGED <<d_sent, heap>>
    /\ UNCHANGED <<regVars, routing_table, d_addr, d_msg, d_peer, d_removed, n_recv,
                   sVars, bVars, hVars>>

\* handle_handshake_request: peer_guard.id, node_info, status
HsUpdatePeer ==
    /\ UNCHANGED xVars
    /\ d_pc = "hs_update"
    /\ Granted(d_peer)
    /\ heap' = [heap EXCEPT ![d_peer] =
                  [@ EXCEPT !.id = d_msg.id, !.nid = d_msg.nid, !.status = "Authenticated"]]
    /\ d_pc' = "hs_rekey"
    /\ UNCHANGED <<regVars, routing_table, d_addr, d_msg, d_peer, d_removed, d_sent,
                   d_res, n_recv, sVars, bVars, hVars>>

\* handle_handshake_request: the old key of the record is removed from peers
\* and the claimed id inserted
HsRekey ==
    /\ UNCHANGED xVars
    /\ d_pc = "hs_rekey" /\ s_pc # "scan"
    /\ LET old == {k \in DOMAIN peers : peers[k] = d_peer}
       IN IF old = {}
          THEN peers' = With(peers, d_msg.id, d_peer)
          ELSE \E k \in old : peers' = With(Without(peers, k), d_msg.id, d_peer)
    /\ d_pc' = "hs_respond"
    /\ UNCHANGED <<peers_by_addr, next_uuid, routing_table, d_addr, d_msg, d_peer,
                   d_removed, d_sent, d_res, n_recv, sVars, bVars, hVars>>
    /\ heap' = Collect(heap, LiveHandles')

\* handle_handshake_request: the HandshakeResponse with success = true
HsRespond ==
    /\ UNCHANGED xVars
    /\ d_pc = "hs_respond"
    /\ Granted(d_peer)
    /\ d_sent' = d_sent \o <<HandshakeResponseTo(d_addr, TRUE)>>
    /\ d_pc' = "sch_set"
    /\ UNCHANGED <<regVars, heap, routing_table, d_addr, d_msg, d_peer, d_removed,
                   d_res, n_recv, sVars, bVars, hVars>>

(* --------------- peer.rs: handle_handshake_response -------------------- *)
\* response.node_info.metadata.get("network_id"): no client of the model sets it
RemoteMetadataNetworkId(m) == NoInfo

\* handle_message, HandshakeResponse arm: handle_handshake_response and the
\* direct route to the id the peer now carries
HandleHandshakeResponse ==
    /\ UNCHANGED xVars
    /\ d_pc = "handle" /\ d_msg.type = "HandshakeResponse"
    /\ Granted(d_peer)
    /\ d_sent' = d_sent
    /\ IF d_msg.success
       THEN IF ExpectedNetworkId # NoInfo
               /\ ExpectedNetworkId # RemoteMetadataNetworkId(d_msg)
            THEN /\ heap' = [heap EXCEPT ![d_peer].status = "Error"]
                 /\ Finish("err")
                 /\ UNCHANGED routing_table
            ELSE /\ heap' = [heap EXCEPT ![d_peer] =
                       [@ EXCEPT !.id = d_msg.id, !.nid = d_msg.nid,
                                 !.status = "Authenticated"]]
                 /\ routing_table' = add_route(routing_table, d_msg.id, d_msg.id, 1)
                 /\ Finish("ok")
       ELSE /\ heap' = [heap EXCEPT ![d_peer].status = "Error"]
            /\ Finish("err")
            /\ UNCHANGED routing_table
    /\ UNCHANGED <<regVars, d_addr, d_msg, d_peer, d_removed, n_recv, sVars, bVars, hVars>>

(* ------------------------- peer.rs: handle_ping ------------------------ *)
HandlePing ==
    /\ UNCHANGED xVars
    /\ d_pc = "handle" /\ d_msg.type = "Ping"
    /\ Granted(d_peer)
    /\ d_sent' = d_sent \o <<PongTo(d_addr)>>
    /\ Finish("ok")
    /\ UNCHANGED <<regVars, heap, routing_table, d_addr, d_msg, d_peer, d_removed,
                   n_recv, sVars, bVars, hVars>>

(* ------------------- peer.rs: the peer lists --------------------------- *)
\* get_authenticated_peers
get_authenticated_peers == {h \in Range(peers) : is_authenticated(heap[h])}
\* get_peer_info_list_excluding(Some(id)): the ids of every other
\* Authenticated peer
get_peer_info_list_excluding(ex) ==
    {heap[h].id : h \in {x \in get_authenticated_peers : heap[x].id # ex}}

(* ------------- server.rs: handle_discovery_request --------------------- *)
\* the id of the requesting record is read, the list of the other
\* Authenticated peers is computed and sent; the dispatcher, which runs this
\* handler, is the only writer of a record's id
HandleDiscoveryRequest ==
    /\ UNCHANGED xVars
    /\ d_pc = "handle" /\ d_msg.type = "DiscoveryRequest"
    /\ Granted(d_peer)
    /\ AllGranted
    /\ d_sent' = d_sent \o
           <<DiscoveryResponseTo(d_addr, get_peer_info_list_excluding(heap[d_peer].id))>>
    /\ Finish("ok")
    /\ UNCHANGED <<regVars, heap, routing_table, d_addr, d_msg, d_peer, d_removed,
                   n_recv, sVars, bVars, hVars>>

(* ------------ server.rs: handle_message, DiscoveryResponse ------------- *)
\* the routes learned from a peer list: every id but the local one and the
\* sender's gets a route through the sender at distance 2; the list holds
\* each id once, so the order of the entries does not matter
RECURSIVE LearnRoutes(_, _, _)
LearnRoutes(rt, ids, next_hop) ==
    IF ids = {} THEN rt
    ELSE LET p == CHOOSE x \in ids : TRUE
         IN LearnRoutes(IF p = LocalNodeId \/ p = next_hop THEN rt
                        ELSE add_route(rt, p, next_hop, 2),
                        ids \ {p}, next_hop)

HandleDiscoveryResponse ==
    /\ UNCHANGED xVars
    /\ d_pc = "handle" /\ d_msg.type = "DiscoveryResponse"
    /\ Granted(d_peer)
    /\ d_sent' = d_sent
    /\ routing_table' = IF d_msg.valid
                        THEN LearnRoutes(routing_table, d_msg.list, heap[d_peer].id)
                        ELSE routing_table
    /\ Finish("ok")
    /\ UNCHANGED <<regVars, heap, d_addr, d_msg, d_peer, d_removed, n_recv,
                   sVars, bVars, hVars>>

(* --------------- server.rs: handle_message, P2PConnect ----------------- *)
\* variant: each side is sent its own address
msgs_to_both_own(requester, target_id, target) ==
    <<P2PConnectTo(requester.addr, target_id, requester.addr),
      P2PConnectTo(target.addr, requester.id, target.addr)>>
\* msg_to_requester carries the id and address of the target, msg_to_target
\* the id and address of the requester
msgs_to_both(requester, target_id, target) ==
    <<P2PConnectTo(requester.addr, target_id, target.addr),
      P2PConnectTo(target.addr, requester.id, requester.addr)>>
\* the requester is answered with an Error when the peer_id is missing, is its
\* own id, has no record under get_peer or has a record that is not
\* Authenticated; otherwise requester and target are each sent the address
\* of the other
HandleP2PConnect ==
    /\ UNCHANGED xVars
    /\ d_pc = "handle" /\ d_msg.type = "P2PConnect"
    /\ Granted(d_peer)
    /\ LET target_id == d_msg.target
           requester_id == heap[d_peer].id
       IN IF target_id = None
          THEN d_sent' = d_sent
                           \o <<ErrorTo(d_addr, "InvalidPeerId", None)>>
          ELSE IF requester_id = target_id
          THEN d_sent' = d_sent
                           \o <<ErrorTo(d_addr, "SelfConnect", target_id)>>
          ELSE IF target_id \notin DOMAIN peers
          THEN d_sent' = d_sent
                           \o <<ErrorTo(d_addr, "TargetNotFound", target_id)>>
          ELSE /\ Granted(peers[target_id])
               /\ IF ~is_authenticated(heap[peers[target_id]])
                  THEN d_sent' = d_sent
                           \o <<ErrorTo(d_addr, "TargetNotAuthenticated", target_id)>>
                  ELSE d_sent' = d_sent
                           \o msgs_to_both(heap[d_peer], target_id,
                                           heap[peers[target_id]])
    /\ Finish("ok")
    /\ UNCHANGED <<regVars, heap, routing_table, d_addr, d_msg, d_peer, d_removed,
                   n_recv, sVars, bVars, hVars>>

(* ---------------- server.rs: handle_message, Disconnect ---------------- *)
\* status = Disconnected, remove_node_routes(peer.id)
HandleDisconnect ==
    /\ UNCHANGED xVars
    /\ d_pc = "handle" /\ d_msg.type = "Disconnect"
    /\ Granted(d_peer)
    /\ d_sent' = d_sent
    /\ heap' = [heap EXCEPT ![d_peer].status = "Disconnected"]
    /\ routing_table' = remove_node_routes(routing_table, heap[d_peer].id)
    /\ d_pc' = "rm_peers"
    /\ UNCHANGED <<regVars, d_addr, d_msg, d_peer, d_removed, d_res, n_recv,
                   sVars, bVars, hVars>>

\* remove_peer(&pid): self.peers.write().await.remove(peer_id)
RemovePeerPeers ==
    /\ UNCHANGED xVars
    /\ d_pc = "rm_peers" /\ s_pc # "scan"
    /\ LET pid == heap[d_peer].id
       IN IF pid \in DOMAIN peers
          THEN /\ d_removed' = peers[pid]
               /\ peers' = Without(peers, pid)
               /\ d_pc' = "rm_addr"
          ELSE /\ d_pc' = "sch_set"
               /\ UNCHANGED <<d_removed, peers>>
    /\ UNCHANGED <<peers_by_addr, next_uuid, heap, routing_table, d_addr, d_msg, d_peer,
                   d_sent, d_res, n_recv, sVars, bVars, hVars>>

\* remove_peer: self.peers_by_addr.write().await.remove(&peer_addr)
RemovePeerAddr ==
    /\ UNCHANGED xVars
    /\ d_pc = "rm_addr"
    /\ Granted(d_removed)
    /\ peers_by_addr' = Without(peers_by_addr, heap[d_removed].addr)
    /\ d_removed' = None
    /\ d_pc' = "sch_set"
    /\ UNCHANGED <<peers, next_uuid, routing_table, d_addr, d_msg, d_peer,
                   d_sent, d_res, n_recv, sVars, bVars, hVars>>
    /\ heap' = Collect(heap, LiveHandles')

(* ------------- server.rs: schedule_peerlist_broadcast ------------------ *)
\* the exclude id the handler passes: Some(node_info.id) on a join, None on a leave
ScheduleExcludeId == IF d_msg.type = "HandshakeRequest" THEN d_msg.id ELSE None

\* *self.broadcast_exclude_id.lock().await = exclude_id
SchSetExclude ==
    /\ UNCHANGED xVars
    /\ d_pc = "sch_set"
    /\ broadcast_exclude_id' = ScheduleExcludeId
    /\ d_pc' = "sch_restart"
    /\ trig' = [trig EXCEPT !.last = ScheduleExcludeId]
    /\ UNCHANGED <<regVars, heap, routing_table, d_addr, d_msg, d_peer, d_removed, d_sent,
                   d_res, n_recv, sVars, b_pc, b_ex, b_todo, b_cur, b_pid, b_sent,
                   b1, s1_ok, s1_joins, kVars, l2, handled, d_pre, ack_res>>

\* variant: the handle of the earlier task is dropped without abort()
AbortsEarlierTaskNever == FALSE
\* if let Some(handle) = broadcast_task.take() { handle.abort() }: the task
\* of the handle stops here unless its future has completed
AbortsEarlierTask == b_pc # "none"

\* the pending task is aborted and a new one spawned, which sleeps
SchRestart ==
    /\ UNCHANGED yVars
    /\ b_live' = b_live - (IF AbortsEarlierTask THEN 1 ELSE 0) + 1
    /\ d_pc = "sch_restart"
    /\ b_pc' = "sleep" /\ b_ex' = None /\ b_todo' = {} /\ b_cur' = None /\ b_pid' = None
    /\ b_sent' = {}
    /\ Finish("ok")
    /\ UNCHANGED <<regVars, routing_table, d_addr, d_msg, d_peer, d_removed, d_sent,
                   n_recv, sVars, broadcast_exclude_id, hVars>>
    /\ heap' = Collect(heap, LiveHandles')

\* handle_udp_packet returns to the loop of run()
Return ==
    /\ UNCHANGED xVars
    /\ d_pc = "done"
    /\ d_pc' = "recv" /\ d_addr' = NoAddr /\ d_msg' = NoMsg /\ d_peer' = None
    /\ d_removed' = None /\ d_sent' = <<>> /\ d_res' = ""
    /\ b1' = B1OnReturn
    /\ s1_ok' = (s1_ok /\ d_res = "ok")
    /\ s1_joins' = IF s1_ok /\ d_res = "ok"
                   THEN Append(s1_joins, [addr |-> d_addr, id |-> d_msg.id])
                   ELSE <<>>
    /\ l2' = L2OnReturn
    /\ handled' = HandledOnReturn
    /\ d_pre' = NoPre /\ ack_res' = "none"
    /\ UNCHANGED trig
    /\ UNCHANGED <<regVars, routing_table, n_recv, sVars, bVars, kVars>>
    /\ heap' = Collect(heap, LiveHandles')

(* ---------------- peer.rs: cleanup_disconnected_peers ------------------ *)
\* the tick of start_cleanup_task: self.peers.read() is taken for the scan
SweepBegin ==
    /\ UNCHANGED xVars
    /\ s_pc = "idle"
    /\ s_todo' = DOMAIN peers /\ s_remove' = {}
    /\ s_pc' = IF DOMAIN peers = {} THEN "idle" ELSE "scan"
    /\ UNCHANGED <<regVars, heap, routing_table, dVars, s_cur, bVars, hVars>>

\* one iteration of the scan: the status of one record is read
SweepScan(k) ==
    /\ UNCHANGED xVars
    /\ s_pc = "scan" /\ k \in s_todo
    /\ Granted(peers[k])
    /\ LET rm == IF is_connected(heap[peers[k]]) THEN s_remove ELSE s_remove \cup {k}
       IN /\ s_remove' = rm
          /\ s_todo' = s_todo \ {k}
          /\ s_pc' = IF s_todo \ {k} # {} THEN "scan"
                     ELSE IF rm = {} THEN "idle" ELSE "remove"
    /\ UNCHANGED <<regVars, heap, routing_table, dVars, s_cur, bVars, hVars>>

\* remove_peer(&id) of the sweep: self.peers.write().await.remove(peer_id)
SweepRemovePeers(k) ==
    /\ UNCHANGED xVars
    /\ s_pc = "remove" /\ k \in s_remove
    /\ s_remove' = s_remove \ {k}
    /\ IF k \in DOMAIN peers
       THEN /\ s_cur' = peers[k]
            /\ peers' = Without(peers, k)
            /\ s_pc' = "rm_addr"
       ELSE /\ s_pc' = IF s_remove \ {k} = {} THEN "idle" ELSE "remove"
            /\ UNCHANGED <<s_cur, peers>>
    /\ UNCHANGED <<peers_by_addr, next_uuid, heap, routing_table, dVars, s_todo,
                   bVars, hVars>>

\* remove_peer of the sweep: self.peers_by_addr.write().await.remove(&peer_addr)
SweepRemoveAddr ==
    /\ UNCHANGED xVars
    /\ s_pc = "rm_addr"
    /\ Granted(s_cur)
    /\ peers_by_addr' = Without(peers_by_addr, heap[s_cur].addr)
    /\ s_cur' = None
    /\ s_pc' = IF s_remove = {} THEN "idle" ELSE "remove"
    /\ UNCHANGED <<peers, next_uuid, routing_table, dVars, s_todo, s_remove,
                   bVars, hVars>>
    /\ heap' = Collect(heap, LiveHandles')

(* ------------- server.rs: the debounced broadcast task ----------------- *)
\* variant: the exclude id is ignored
IsExcludedNever(ex, pid) == FALSE
\* exclude_id == Some(pid)
IsExcluded(ex, pid) == ex # None /\ ex = pid

\* the sleep ends; the exclude id is taken and cleared
BcFire ==
    /\ UNCHANGED xVars
    /\ b_pc = "sleep"
    /\ b_ex' = broadcast_exclude_id
    /\ broadcast_exclude_id' = None
    /\ b_pc' = "snap"
    /\ s1_ok' = (s1_ok /\ Len(s1_joins) = 2)
    /\ s1_joins' = IF s1_ok /\ Len(s1_joins) = 2 THEN s1_joins ELSE <<>>
    /\ trig' = [trig EXCEPT !.fired = trig.last]
    /\ UNCHANGED <<regVars, heap, routing_table, dVars, sVars, b_todo, b_cur, b_pid,
                   b_sent, b1, kVars, l2, handled, d_pre, ack_res>>

\* let peers = peer_manager.get_authenticated_peers().await
BcSnapshot ==
    /\ UNCHANGED xVars
    /\ b_pc = "snap"
    /\ AllGranted
    /\ b_todo' = get_authenticated_peers
    /\ b_pc' = IF get_authenticated_peers = {} THEN "finished" ELSE "loop"
    /\ d_pre' = [d_pre EXCEPT !.listed = @ \/ SourceLeft]
    /\ UNCHANGED <<regVars, heap, routing_table, dVars, sVars, broadcast_exclude_id,
                   b_ex, b_cur, b_pid, b_sent, b1, s1_ok, s1_joins, kVars, l2, handled,
                   trig, ack_res>>

\* one iteration: the id of the recipient is read; the excluded peer is skipped
BcReadId(h) ==
    /\ UNCHANGED xVars
    /\ b_pc = "loop" /\ h \in b_todo
    /\ Granted(h)
    /\ b_todo' = b_todo \ {h}
    /\ IF IsExcluded(b_ex, heap[h].id)
       THEN /\ b_pc' = IF b_todo \ {h} = {} THEN "finished" ELSE "loop"
            /\ UNCHANGED <<b_cur, b_pid>>
       ELSE /\ b_cur' = h /\ b_pid' = heap[h].id
            /\ b_pc' = "send"
    /\ UNCHANGED <<regVars, routing_table, dVars, sVars, broadcast_exclude_id,
                   b_ex, b_sent, hVars>>
    /\ heap' = Collect(heap, LiveHandles')

\* the list for this recipient is computed and sent as a DiscoveryResponse
BcSend ==
    /\ UNCHANGED xVars
    /\ b_pc = "send"
    /\ Granted(b_cur) /\ AllGranted
    /\ b_sent' = b_sent \cup
           {DiscoveryResponseTo(heap[b_cur].addr, get_peer_info_list_excluding(b_pid))}
    /\ b_cur' = None /\ b_pid' = None
    /\ b_pc' = IF b_todo = {} THEN "finished" ELSE "loop"
    /\ UNCHANGED <<regVars, routing_table, dVars, sVars, broadcast_exclude_id,
                   b_ex, b_todo, hVars>>
    /\ heap' = Collect(heap, LiveHandles')

\* the task's future completes
BcExit ==
    /\ UNCHANGED yVars
    /\ b_live' = b_live - 1
    /\ b_pc = "finished"
    /\ b_pc' = "none" /\ b_sent' = {} /\ b_ex' = None
    /\ UNCHANGED <<regVars, heap, routing_table, dVars, sVars, broadcast_exclude_id,
                   b_todo, b_cur, b_pid, hVars>>

(* ----------------- server.rs: the heartbeat task ----------------------- *)
\* interval.tick(), then let peers = get_authenticated_peers()
HbSnapshot ==
    /\ h_pc = "idle" /\ AllGranted
    /\ h_todo' = get_authenticated_peers
    /\ h_pc' = IF get_authenticated_peers = {} THEN "idle" ELSE "loop"
    /\ UNCHANGED <<regVars, heap, routing_table, dVars, sVars, bVars, hVars, tVars,
                   cVars, rVars, st_stats, fVars, h_wait>>

\* one iteration: the Ping is sent under a read lock of the record. When the
\* send fails, the body of the `if let` asks for the write lock while the read
\* guard of its scrutinee is still alive: the task waits for itself
HbSend(h, ok) ==
    /\ h_pc = "loop" /\ h \in h_todo /\ Granted(h)
    /\ h_todo' = h_todo \ {h}
    /\ IF ok
       THEN /\ h_pc' = IF h_todo \ {h} = {} THEN "idle" ELSE "loop"
            /\ UNCHANGED h_wait
       ELSE /\ h_pc' = "wait_write"
            /\ h_wait' = h
    /\ UNCHANGED <<regVars, routing_table, dVars, sVars, bVars, hVars, tVars, cVars,
                   rVars, st_stats, fVars>>
    /\ heap' = Collect(heap, LiveHandles')

(* ------------------- server.rs: the stats task -------------------------- *)
\* interval.tick(), then get_stats(): the records of `peers` are counted
StatsTick ==
    /\ AllGranted
    /\ st_stats' = [total_peers |-> Cardinality(DOMAIN peers),
                    authenticated_peers |-> Cardinality(get_authenticated_peers)]
    /\ UNCHANGED <<regVars, heap, routing_table, dVars, sVars, bVars, hVars, tVars,
                   cVars, hbVars, rVars, fVars>>

(* ---------------------- server.rs: run, shutdown ------------------------ *)
\* shutdown(): tx.send(()); the Disconnect datagrams it then sends to the
\* peers change nothing the server keeps
Shutdown ==
    /\ run_pc = "loop" /\ ~shutdown_sent
    /\ shutdown_sent' = TRUE
    /\ UNCHANGED <<regVars, heap, routing_table, dVars, sVars, bVars, hVars, tVars,
                   cVars, hbVars, run_pc, st_stats, fVars>>

\* select! takes the branch of shutdown_rx.recv() and the loop breaks; a
\* datagram whose branch was taken is handled to its end first
RunBreak ==
    /\ run_pc = "loop" /\ shutdown_sent /\ d_pc = "recv"
    /\ run_pc' = "join"
    /\ UNCHANGED <<regVars, heap, routing_table, dVars, sVars, bVars, hVars, tVars,
                   cVars, hbVars, shutdown_sent, st_stats, fVars>>

\* the periodic tasks whose future has completed: each body is a `loop`
\* with no break and no return, and nothing aborts a task
FinishedTasks == {}
\* tokio::join!(heartbeat_task, cleanup_task, stats_task) is polled: run()
\* returns once the three handles are ready
RunJoin ==
    /\ run_pc = "join"
    /\ run_pc' = IF {"heartbeat", "cleanup", "stats"} \subseteq FinishedTasks
                 THEN "returned" ELSE "join"
    /\ UNCHANGED <<regVars, heap, routing_table, dVars, sVars, bVars, hVars, tVars,
                   cVars, hbVars, shutdown_sent, st_stats, fVars>>

(* ------------------- router.rs: forward_message ----------------------- *)
\* what a step of forward_message leaves alone, beside the router's own state
fwFrame == <<regVars, sVars, bVars, hVars, tVars, cVars, hbVars, rVars, st_stats>>

\* variant: the hop count is compared before it is incremented
increment_hop_after_check(e) ==
    [env |-> [e EXCEPT !.hop_count = (e.hop_count + 1) % HopLimit],
     ok |-> e.hop_count <= e.max_hops]
\* self.hop_count += 1; self.hop_count <= self.max_hops
increment_hop(e) ==
    LET h == (e.hop_count + 1) % HopLimit
    IN [env |-> [e EXCEPT !.hop_count = h], ok |-> h <= e.max_hops]
\* the addition overflows the type: a panic in a build with overflow checks,
\* a wrap to 0 in one without
Overflows(e) == e.hop_count + 1 >= HopLimit

\* handle_message, Data arm: a payload that parses as a RoutedMessage is
\* passed to forward_message, any other is echoed by handle_data_message
HandleData ==
    /\ d_pc = "handle" /\ d_msg.type = "Data"
    /\ Granted(d_peer)
    /\ IF d_msg.valid
       THEN /\ fw' = [fw EXCEPT !["dispatcher"] =
                        NewCall(d_msg.env, <<"dispatcher", n_calls["dispatcher"] + 1>>)]
            /\ n_calls' = [n_calls EXCEPT !["dispatcher"] = @ + 1]
            /\ d_sent' = d_sent
            /\ d_pc' = "forward" /\ d_res' = d_res
       ELSE /\ d_sent' = d_sent \o <<DataTo(d_addr)>>
            /\ Finish("ok")
            /\ UNCHANGED <<fw, n_calls>>
    /\ UNCHANGED <<fwFrame, heap, routing_table, d_addr, d_msg, d_peer, d_removed,
                   n_recv, message_cache, cache_old, fw_out>>

\* forward_message(routed).await? returns to the Data arm
FwReturn ==
    /\ d_pc = "forward" /\ fw["dispatcher"].pc = "done"
    /\ Finish(IF fw["dispatcher"].res = "ok" THEN "ok" ELSE "err")
    /\ fw' = [fw EXCEPT !["dispatcher"] = NoCall]
    /\ UNCHANGED <<fwFrame, heap, routing_table, d_addr, d_msg, d_peer, d_removed,
                   d_sent, n_recv, message_cache, cache_old, fw_out, n_calls>>

\* another task calls forward_message with an envelope of its own
TaskCall(e) ==
    /\ fw["task"].pc = "idle" /\ n_calls["task"] < MaxTaskCalls
    /\ fw' = [fw EXCEPT !["task"] = NewCall(e, <<"task", n_calls["task"] + 1>>)]
    /\ n_calls' = [n_calls EXCEPT !["task"] = @ + 1]
    /\ UNCHANGED <<fwFrame, dVars, heap, routing_table, message_cache, cache_old, fw_out>>

\* the call of the other task returns
TaskReturn ==
    /\ fw["task"].pc = "done"
    /\ fw' = [fw EXCEPT !["task"] = NoCall]
    /\ UNCHANGED <<fwFrame, dVars, heap, routing_table, message_cache, cache_old, fw_out, n_calls>>

\* is_message_cached: message_cache.read().await.contains_key(route_id)
FwCheck(c) ==
    /\ fw[c].pc = "check"
    /\ fw' = [fw EXCEPT ![c] =
                 IF @.env.route_id \in message_cache
                 THEN [@ EXCEPT !.pc = "done", !.res = "ok"]
                 ELSE [@ EXCEPT !.pc = "cache"]]
    /\ UNCHANGED <<fwFrame, dVars, heap, routing_table, message_cache, cache_old, fw_out, n_calls>>

\* variant: the RouteId is cached once the hop limit is passed
FwCacheOnSuccess(c, panics) ==
    /\ fw[c].pc = "cache"
    /\ LET r == increment_hop(fw[c].env)
           f == [fw[c] EXCEPT !.env = r.env]
           cached == message_cache \cup {fw[c].env.route_id}
       IN IF Overflows(fw[c].env) /\ panics
          THEN /\ fw' = [fw EXCEPT ![c].pc = "panicked"]
               /\ UNCHANGED <<fw_out, message_cache, cache_old>>
          ELSE IF ~r.ok
          THEN /\ fw' = [fw EXCEPT ![c] = [f EXCEPT !.pc = "done", !.res = "max_hops"]]
               /\ UNCHANGED <<fw_out, message_cache, cache_old>>
          ELSE /\ message_cache' = cached
               /\ cache_old' = cache_old \ {fw[c].env.route_id}
               /\ IF f.env.destination_node = LocalNodeId
                  THEN /\ fw' = [fw EXCEPT ![c] = [f EXCEPT !.pc = "done", !.res = "ok"]]
                       /\ fw_out' = fw_out \cup {Outcome(f, "local", NoAddr)}
                  ELSE /\ fw' = [fw EXCEPT ![c] = [f EXCEPT !.pc = "lookup"]]
                       /\ UNCHANGED fw_out
    /\ UNCHANGED <<fwFrame, dVars, heap, routing_table, n_calls>>

\* cache_message_id, then increment_hop and the test of the destination; a
\* message for the local node is handled here
FwCache(c, panics) ==
    /\ fw[c].pc = "cache"
    /\ message_cache' = message_cache \cup {fw[c].env.route_id}
    /\ cache_old' = cache_old \ {fw[c].env.route_id}
    /\ LET r == increment_hop(fw[c].env)
           f == [fw[c] EXCEPT !.env = r.env]
       IN IF Overflows(fw[c].env) /\ panics
          THEN /\ fw' = [fw EXCEPT ![c].pc = "panicked"]
               /\ UNCHANGED fw_out
          ELSE IF ~r.ok
          THEN /\ fw' = [fw EXCEPT ![c] = [f EXCEPT !.pc = "done", !.res = "max_hops"]]
               /\ UNCHANGED fw_out
          ELSE IF f.env.destination_node = LocalNodeId
          THEN /\ fw' = [fw EXCEPT ![c] = [f EXCEPT !.pc = "done", !.res = "ok"]]
               /\ fw_out' = fw_out \cup {Outcome(f, "local", NoAddr)}
          ELSE /\ fw' = [fw EXCEPT ![c] = [f EXCEPT !.pc = "lookup"]]
               /\ UNCHANGED fw_out
    /\ UNCHANGED <<fwFrame, dVars, heap, routing_table, n_calls>>

\* routing_table.read().await.get_next_hop(&destination_node)
FwLookup(c) ==
    /\ fw[c].pc = "lookup"
    /\ LET d == fw[c].env.destination_node
       IN fw' = [fw EXCEPT ![c] =
                    IF d \in DOMAIN routing_table
                    THEN [@ EXCEPT !.pc = "get_peer", !.next_hop = routing_table[d].next_hop]
                    ELSE [@ EXCEPT !.pc = "bc_snap"]]
    /\ UNCHANGED <<fwFrame, dVars, heap, routing_table, message_cache, cache_old, fw_out, n_calls>>

\* variant: get_peer finds no record
FwGetPeerMisses(c) ==
    /\ fw[c].pc = "get_peer"
    /\ fw' = [fw EXCEPT ![c].pc = "rm_routes"]
    /\ UNCHANGED <<fwFrame, dVars, heap, routing_table, message_cache, cache_old, fw_out, n_calls>>
\* peer_manager.get_peer(&next_hop_id): peers.read().await.get(id).cloned()
FwGetPeer(c) ==
    /\ fw[c].pc = "get_peer"
    /\ fw' = [fw EXCEPT ![c] =
                 IF @.next_hop \in DOMAIN peers
                 THEN [@ EXCEPT !.pc = "send", !.peer = peers[fw[c].next_hop]]
                 ELSE [@ EXCEPT !.pc = "rm_routes"]]
    /\ UNCHANGED <<fwFrame, dVars, heap, routing_table, message_cache, cache_old, fw_out, n_calls>>

\* peer.read().await.send_message(&message): the envelope goes to the next hop
FwSend(c) ==
    /\ fw[c].pc = "send" /\ Granted(fw[c].peer)
    /\ fw_out' = fw_out \cup {Outcome(fw[c], "forward", heap[fw[c].peer].addr)}
    /\ fw' = [fw EXCEPT ![c] = [@ EXCEPT !.pc = "done", !.res = "ok", !.peer = None]]
    /\ UNCHANGED <<fwFrame, dVars, routing_table, message_cache, cache_old, n_calls>>
    /\ heap' = Collect(heap, LiveHandles')

\* routing_table.write().await.remove_routes_via(&next_hop_id)
FwRemoveRoutes(c) ==
    /\ fw[c].pc = "rm_routes"
    /\ routing_table' = remove_routes_via(routing_table, fw[c].next_hop)
    /\ fw' = [fw EXCEPT ![c].pc = "bc_snap"]
    /\ UNCHANGED <<fwFrame, dVars, heap, message_cache, cache_old, fw_out, n_calls>>

\* broadcast_message: let peers = get_authenticated_peers()
FwBcSnapshot(c) ==
    /\ fw[c].pc = "bc_snap" /\ AllGranted
    /\ fw' = [fw EXCEPT ![c] =
                 IF get_authenticated_peers = {}
                 THEN [@ EXCEPT !.pc = "done", !.res = "ok"]
                 ELSE [@ EXCEPT !.pc = "bc_loop", !.todo = get_authenticated_peers,
                                !.snap = {[addr |-> heap[h].addr, id |-> heap[h].id] :
                                             h \in get_authenticated_peers}]]
    /\ UNCHANGED <<fwFrame, dVars, heap, routing_table, message_cache, cache_old, fw_out, n_calls>>

\* variant: a send that fails ends the broadcast with the error
FwBcSendAborts(c, h, ok) ==
    /\ fw[c].pc = "bc_loop" /\ h \in fw[c].todo /\ Granted(h)
    /\ fw_out' = IF heap[h].id = fw[c].env.source_node THEN fw_out
                 ELSE fw_out \cup {Outcome(fw[c], IF ok THEN "broadcast" ELSE "failed",
                                           heap[h].addr)}
    /\ fw' = [fw EXCEPT ![c] =
                 IF ~ok /\ heap[h].id # fw[c].env.source_node
                 THEN [@ EXCEPT !.pc = "done", !.res = "err", !.todo = {}]
                 ELSE IF @.todo \ {h} = {}
                 THEN [@ EXCEPT !.pc = "done", !.res = "ok", !.todo = {}]
                 ELSE [@ EXCEPT !.todo = @ \ {h}]]
    /\ UNCHANGED <<fwFrame, dVars, routing_table, message_cache, cache_old, n_calls>>
    /\ heap' = Collect(heap, LiveHandles')

\* one iteration of the broadcast: the id of the peer is read, the source of
\* the envelope is skipped, any other peer is sent the envelope; a send that
\* fails (ok = FALSE) is counted and the loop goes on
FwBcSend(c, h, ok) ==
    /\ fw[c].pc = "bc_loop" /\ h \in fw[c].todo /\ Granted(h)
    /\ fw_out' = IF heap[h].id = fw[c].env.source_node THEN fw_out
                 ELSE fw_out \cup {Outcome(fw[c], IF ok THEN "broadcast" ELSE "failed",
                                           heap[h].addr)}
    /\ fw' = [fw EXCEPT ![c] =
                 IF @.todo \ {h} = {}
                 THEN [@ EXCEPT !.pc = "done", !.res = "ok", !.todo = {}]
                 ELSE [@ EXCEPT !.todo = @ \ {h}]]
    /\ UNCHANGED <<fwFrame, dVars, routing_table, message_cache, cache_old, n_calls>>
    /\ heap' = Collect(heap, LiveHandles')

(* ------------------------------ system ---------------------------------- *)
\* the steps of a datagram that joins or probes: get_or_create_peer_by_addr,
\* the HandshakeRequest and Ping arms, the scheduling of the fan-out
JoinSteps ==
    \/ AddPeerCheck \/ AddPeerInsertPeers \/ AddPeerInsertAddr
    \/ HandleHandshakeRequest \/ HsDupCheck \/ HsUpdatePeer \/ HsRekey \/ HsRespond
    \/ HandlePing
    \/ SchSetExclude \/ SchRestart \/ Return
\* the HandshakeResponse and Disconnect arms
OtherSteps ==
    \/ HandleHandshakeResponse
    \/ HandleDisconnect \/ RemovePeerPeers \/ RemovePeerAddr
Dispatcher(addrs, maxd) ==
    \/ \E a \in addrs, m \in Inbound : Receive(a, m, maxd)
    \/ SendAck(TRUE)
    \/ JoinSteps \/ OtherSteps
Sweep ==
    \/ SweepBegin
    \/ \E k \in s_todo : SweepScan(k)
    \/ \E k \in s_remove : SweepRemovePeers(k)
    \/ SweepRemoveAddr
Broadcast ==
    \/ BcFire \/ BcSnapshot
    \/ \E h \in b_todo : BcReadId(h)
    \/ BcSend \/ BcExit

\* every task
Next == Dispatcher(TwoAddrs, MaxDatagrams) \/ Sweep \/ Broadcast
Spec == Init /\ [][Next]_vars
\* the dispatcher alone, with datagrams of every kind that ask for an Ack or
\* do not (requires_ack is a field of the datagram), and the send of the Ack
\* succeeding or failing
AckInbound ==
    LET ms == Inbound \cup DiscoveryRequests
    IN ms \cup {[m EXCEPT !.requires_ack = ~@] : m \in ms}
NextAck ==
    \/ \E a \in Addrs, m \in AckInbound : Receive(a, m, AckDatagrams)
    \/ \E ok \in BOOLEAN : SendAck(ok)
    \/ JoinSteps \/ OtherSteps \/ HandleDiscoveryRequest
SpecAck == Init /\ [][NextAck]_vars

\* joining and probing clients against the sweep; no debounce timer elapses
RaceInbound == {m \in HandshakeRequests : m.valid /\ m.nid = NetworkId} \cup Pings
NextRace ==
    \/ \E a \in Addrs, m \in RaceInbound : Receive(a, m, RaceDatagrams)
    \/ SendAck(TRUE)
    \/ JoinSteps \/ Sweep
SpecRace == Init /\ [][NextRace]_vars
\* the dispatcher alone; no timer of any task elapses
NextSerial == Dispatcher(Addrs, SerialDatagrams)
SpecSerial == Init /\ [][NextSerial]_vars

\* clients that join, re-handshake, leave and ask for the peer list while the
\* debounce timer runs
DiscoveryInbound ==
    {m \in HandshakeRequests : m.valid /\ m.nid = NetworkId}
    \cup {m \in HandshakeResponses : m.success} \cup Disconnects
    \cup DiscoveryRequests
NextDiscovery ==
    \/ \E a \in TwoAddrs, m \in DiscoveryInbound : Receive(a, m, DiscoveryDatagrams)
    \/ SendAck(TRUE)
    \/ AddPeerCheck \/ AddPeerInsertPeers \/ AddPeerInsertAddr
    \/ HandleHandshakeRequest \/ HsDupCheck \/ HsUpdatePeer \/ HsRekey \/ HsRespond
    \/ HandleHandshakeResponse \/ HandleDiscoveryRequest
    \/ HandleDisconnect \/ RemovePeerPeers \/ RemovePeerAddr
    \/ SchSetExclude \/ SchRestart \/ Return
    \/ Broadcast
SpecDiscovery == Init /\ [][NextDiscovery]_vars
\* the same, with the runtime running the debounce task: a timer that is
\* armed elapses, a task that can step does
SpecDebounce == Init /\ [][NextDiscovery]_vars /\ WF_vars(Broadcast)

\* the heartbeat task; socket.send_to succeeds or fails
Heartbeat(oks) ==
    \/ HbSnapshot
    \/ \E h \in h_todo, ok \in oks : HbSend(h, ok)
\* clients that join and probe, the heartbeat and the sweep; the runtime runs
\* every task that can step, and every interval ticks again
NextHeartbeat ==
    \/ \E a \in TwoAddrs, m \in RaceInbound : Receive(a, m, HeartbeatDatagrams)
    \/ SendAck(TRUE)
    \/ JoinSteps \/ Sweep \/ Heartbeat(BOOLEAN)
\* the handles of the records, and the keys of the NodeId index
Handles == 1..MaxRecords
Keys == Handles \cup ClaimIds
\* the steps of the sweep and of the heartbeat, over every key and handle
SweepSteps ==
    \/ SweepBegin \/ SweepRemoveAddr
    \/ \E k \in Keys : SweepScan(k) \/ SweepRemovePeers(k)
HeartbeatSteps(oks) ==
    \/ HbSnapshot
    \/ \E h \in Handles, ok \in oks : HbSend(h, ok)
\* the locks are granted in FIFO order: a handler that waits for the write
\* lock of the NodeId index gets it after the scan that holds the read lock
TaskFairness(oks) ==
    /\ SF_vars(SendAck(TRUE) \/ JoinSteps)
    /\ WF_vars(SweepSteps) /\ WF_vars(HeartbeatSteps(oks))
SpecHeartbeat ==
    Init /\ [][NextHeartbeat]_vars /\ TaskFairness(BOOLEAN)
\* the same, every Ping of the heartbeat being sent
NextSilent ==
    \/ \E a \in TwoAddrs, m \in RaceInbound : Receive(a, m, HeartbeatDatagrams)
    \/ SendAck(TRUE)
    \/ JoinSteps \/ Sweep \/ Heartbeat({TRUE})
SpecSilent ==
    Init /\ [][NextSilent]_vars /\ TaskFairness({TRUE})

\* run() with its three tasks and a shutdown signal
NextShutdown ==
    \/ \E a \in TwoAddrs, m \in RaceInbound : Receive(a, m, HeartbeatDatagrams)
    \/ SendAck(TRUE)
    \/ JoinSteps \/ Sweep \/ Heartbeat({TRUE}) \/ StatsTick
    \/ Shutdown \/ RunBreak \/ RunJoin
SpecShutdown ==
    /\ Init /\ [][NextShutdown]_vars
    /\ TaskFairness({TRUE}) /\ WF_vars(StatsTick) /\ WF_vars(RunBreak)

\* clients that join and leave, by a Disconnect or by a HandshakeResponse
\* that reports a failure, with the sweep and the debounce task; the runtime
\* runs every task that can step, the interval of the sweep ticks again and an
\* armed timer elapses
DepartureInbound ==
    {m \in HandshakeRequests : m.valid /\ m.nid = NetworkId}
    \cup {m \in HandshakeResponses : ~m.success} \cup Disconnects
DispatcherSteps ==
    \/ SendAck(TRUE)
    \/ AddPeerCheck \/ AddPeerInsertPeers \/ AddPeerInsertAddr
    \/ HandleHandshakeRequest \/ HsDupCheck \/ HsUpdatePeer \/ HsRekey \/ HsRespond
    \/ HandleHandshakeResponse
    \/ HandleDisconnect \/ RemovePeerPeers \/ RemovePeerAddr
    \/ SchSetExclude \/ SchRestart \/ Return
NextDeparture ==
    \/ \E a \in TwoAddrs, m \in DepartureInbound : Receive(a, m, DepartureDatagrams)
    \/ DispatcherSteps
    \/ Sweep \/ Broadcast
BroadcastSteps ==
    \/ BcFire \/ BcSnapshot \/ BcSend \/ BcExit
    \/ \E h \in Handles : BcReadId(h)
SpecDeparture ==
    /\ Init /\ [][NextDeparture]_vars
    /\ SF_vars(DispatcherSteps) /\ WF_vars(SweepSteps) /\ WF_vars(BroadcastSteps)

\* the steps of forward_message, for every caller; oks: the results the sends
\* of the broadcast can have
ForwardWith(oks) ==
    \E c \in Callers :
        \/ FwCheck(c)
        \/ \E panics \in BOOLEAN : FwCache(c, panics)
        \/ FwLookup(c) \/ FwGetPeer(c) \/ FwSend(c) \/ FwRemoveRoutes(c)
        \/ FwBcSnapshot(c)
        \/ \E h \in Handles, ok \in oks : FwBcSend(c, h, ok)
Forward == ForwardWith({TRUE})
\* the envelopes the other task forwards
TaskEnvelopes == {e \in Envelopes : e.route_id = 1}
\* clients that join, fail a handshake and send Data, and a task that forwards
RouterInbound ==
    {m \in HandshakeRequests : m.valid /\ m.nid = NetworkId}
    \cup {m \in HandshakeResponses : ~m.success} \cup Datas
NextRouter ==
    \/ \E m \in RouterInbound : Receive("a1", m, RouterDatagrams)
    \/ SendAck(TRUE)
    \/ AddPeerCheck \/ AddPeerInsertPeers \/ AddPeerInsertAddr
    \/ HandleHandshakeRequest \/ HsDupCheck \/ HsUpdatePeer \/ HsRekey \/ HsRespond
    \/ HandleHandshakeResponse
    \/ SchSetExclude \/ SchRestart \/ Return
    \/ HandleData \/ FwReturn
    \/ \E e \in TaskEnvelopes : TaskCall(e)
    \/ TaskReturn
    \/ Forward
SpecRouter == Init /\ [][NextRouter]_vars

\* the message cache and its cleanup task: cache_message_id stamps an entry
\* with Instant::now(), and every cache_cleanup_interval the task retains the
\* entries younger than 300 seconds
\* 300 seconds pass: every entry now in the cache is 300 seconds old or older
CacheAge ==
    /\ cache_old # message_cache
    /\ cache_old' = message_cache
    /\ UNCHANGED <<fwFrame, dVars, heap, routing_table, message_cache, fw, fw_out,
                   n_calls>>

\* start_cache_cleanup_task, one turn of its loop
CacheCleanup ==
    /\ message_cache' = message_cache \ cache_old
    /\ cache_old' = {}
    /\ UNCHANGED <<fwFrame, dVars, heap, routing_table, fw, fw_out, n_calls>>

\* a client that joins and sends envelopes, a task that forwards, and the
\* cleanup task of the cache
CacheInbound ==
    {m \in HandshakeRequests : m.valid /\ m.nid = NetworkId} \cup Datas
NextCache ==
    \/ \E m \in CacheInbound : Receive("a1", m, RouterDatagrams)
    \/ SendAck(TRUE)
    \/ AddPeerCheck \/ AddPeerInsertPeers \/ AddPeerInsertAddr
    \/ HandleHandshakeRequest \/ HsDupCheck \/ HsUpdatePeer \/ HsRekey \/ HsRespond
    \/ SchSetExclude \/ SchRestart \/ Return
    \/ HandleData \/ FwReturn
    \/ \E e \in TaskEnvelopes : TaskCall(e)
    \/ TaskReturn
    \/ Forward
    \/ CacheAge \/ CacheCleanup
SpecCache == Init /\ [][NextCache]_vars

\* routed delivery: clients join by a request or by a response, report peer
\* lists and send envelopes; the sends of a broadcast can fail
RoutesInbound ==
    {m \in HandshakeRequests : m.valid /\ m.nid = NetworkId}
    \cup {m \in HandshakeResponses : m.success /\ m.id = 102}
    \cup {m \in DiscoveryResponses : m.list = {103}}
    \cup {DataMsg(e, TRUE) : e \in RouteEnvelopes}
NextRoutes ==
    \/ \E a \in TwoAddrs, m \in RoutesInbound : Receive(a, m, RoutesDatagrams)
    \/ SendAck(TRUE)
    \/ AddPeerCheck \/ AddPeerInsertPeers \/ AddPeerInsertAddr
    \/ HandleHandshakeRequest \/ HsDupCheck \/ HsUpdatePeer \/ HsRekey \/ HsRespond
    \/ HandleHandshakeResponse \/ HandleDiscoveryResponse
    \/ SchSetExclude \/ SchRestart \/ Return
    \/ HandleData \/ FwReturn
    \/ ForwardWith(BOOLEAN)
    \/ Sweep
SpecRoutes == Init /\ [][NextRoutes]_vars

\* the rendezvous broker: clients join by a request or by a response, fail a
\* handshake and ask for a direct connection, while the sweep runs
RendezvousInbound ==
    {m \in HandshakeRequests : m.valid /\ m.nid = NetworkId}
    \cup {m \in HandshakeResponses : m.id = 101}
    \cup P2PConnects
NextRendezvous ==
    \/ \E a \in TwoAddrs, m \in RendezvousInbound : Receive(a, m, RendezvousDatagrams)
    \/ SendAck(TRUE)
    \/ AddPeerCheck \/ AddPeerInsertPeers \/ AddPeerInsertAddr
    \/ HandleHandshakeRequest \/ HsDupCheck \/ HsUpdatePeer \/ HsRekey \/ HsRespond
    \/ HandleHandshakeResponse \/ HandleP2PConnect
    \/ SchSetExclude \/ SchRestart \/ Return
    \/ Sweep
SpecRendezvous == Init /\ [][NextRendezvous]_vars

\* the routing table by itself: an embedding task calls update_routing_table
\* and remove_node_routes of the router, and remove_route of the table, with
\* arguments of its own
UpdateRoutingTable(destination, next_hop, distance) ==
    /\ routing_table' = add_route(routing_table, destination, next_hop, distance)
    /\ u_call' = UpdateCall(destination, next_hop, distance,
                            IF destination \in DOMAIN routing_table
                            THEN routing_table[destination] ELSE NoEntry)
    /\ r_call' = NoRemoval
    /\ UNCHANGED <<regVars, heap, dVars, sVars, bVars, b1, s1_ok, s1_joins, lVars, xVars>>
RemoveNodeRoutes(node_id) ==
    /\ routing_table' = remove_node_routes(routing_table, node_id)
    /\ u_call' = NoUpdate
    /\ r_call' = RemovalCall("remove_node_routes", node_id, routing_table)
    /\ UNCHANGED <<regVars, heap, dVars, sVars, bVars, b1, s1_ok, s1_joins, lVars, xVars>>
RemoveRoute(destination) ==
    /\ routing_table' = remove_route(routing_table, destination)
    /\ u_call' = NoUpdate
    /\ r_call' = RemovalCall("remove_route", destination, routing_table)
    /\ UNCHANGED <<regVars, heap, dVars, sVars, bVars, b1, s1_ok, s1_joins, lVars, xVars>>
TableIds == {101, 102, 103}
NextHops == {101, 102}
Distances == 0..MaxDistance
NextTable ==
    \/ \E d \in TableIds, n \in NextHops, k \in Distances : UpdateRoutingTable(d, n, k)
    \/ \E n \in TableIds : RemoveNodeRoutes(n)
    \/ \E d \in TableIds : RemoveRoute(d)
SpecTable == Init /\ [][NextTable]_vars

\* a server started from a configuration file with "enable_discovery": false
InitDiscoveryOff ==
    /\ InitServer
    /\ enable_discovery = FALSE
SpecDiscoveryOff == InitDiscoveryOff /\ [][NextDiscovery]_vars

(* ------------------------------ properties ------------------------------ *)
\* the records the registry holds, under either index
Registry == Range(peers) \cup Range(peers_by_addr)
\* no handler and no sweep is between two of its steps
Quiescent == d_pc = "recv" /\ s_pc = "idle"
Sent(o) == \E i \in DOMAIN d_sent : d_sent[i] = o
SentError == \E i \in DOMAIN d_sent : d_sent[i].type = "Error" /\ d_sent[i].to = d_addr
LastSent == d_sent[Len(d_sent)]

HolderElsewhere ==
    \E h \in Registry \ {d_peer} :
        is_authenticated(heap[h]) /\ heap[h].id = d_msg.id /\ heap[h].addr # d_addr

\* C2: while a peer Authenticated under NodeId X is in the registry, a valid
\* HandshakeRequest from a different address that claims X and carries the
\* server's network_id is answered with HandshakeResponse success = true and
\* with no Error.
C2_SameIdFromOtherAddressAccepted ==
    (d_pc = "done" /\ d_msg.type = "HandshakeRequest" /\ d_msg.valid
        /\ d_msg.nid = NetworkId /\ d_peer # None /\ HolderElsewhere)
    => Sent(HandshakeResponseTo(d_addr, TRUE)) /\ ~SentError

\* C3: no two Authenticated records of the registry carry the same NodeId.
C3_AuthenticatedIdsUnique ==
    \A h1, h2 \in Registry :
        (h1 # h2 /\ is_authenticated(heap[h1]) /\ is_authenticated(heap[h2]))
        => heap[h1].id # heap[h2].id

C5_AuthenticatedOnlyOnServerNetwork ==
    \A h \in Registry : is_authenticated(heap[h]) => heap[h].nid = NetworkId

\* C6: between handlers, every Authenticated record p of the registry is the
\* record both get_peer_by_addr(p.addr) and get_peer(p.id) return.
C6_BothLookupsReturnRecord ==
    Quiescent =>
        \A h \in Registry :
            is_authenticated(heap[h]) =>
                /\ heap[h].addr \in DOMAIN peers_by_addr
                /\ peers_by_addr[heap[h].addr] = h
                /\ heap[h].id \in DOMAIN peers
                /\ peers[heap[h].id] = h

\* C7: the NodeId index never holds more than max_connections records, whatever
\* the interleaving of the dispatcher with the sweep.
C7_AtMostMaxConnections == Cardinality(DOMAIN peers) <= MaxConnections

\* C8: a HandshakeRequest from an address without a record that add_peer
\* refused because the registry holds max_connections records was answered
\* with an Error to that address, and no record exists for the address.
C8_CapacityRefusalAnswered ==
    (d_pc = "done" /\ d_msg.type = "HandshakeRequest" /\ d_peer = None
        /\ Cardinality(DOMAIN peers) >= MaxConnections)
    => SentError /\ d_addr \notin DOMAIN peers_by_addr

\* C9: after a handshake from a new address was refused for capacity and a
\* Disconnect from an address with a record has then been processed, the
\* retried valid HandshakeRequest of the new address succeeds and its peer is
\* Authenticated.
C9_RetryAfterDisconnectSucceeds ==
    (b1.phase = 4 /\ d_pc = "done")
    => d_res = "ok" /\ d_peer # None /\ is_authenticated(heap[d_peer])

\* the fan-out that follows the joins of A and then B, no other datagram
\* received and no timer elapsed in between, has sent its last datagram
S1FanOutDone ==
    /\ s1_ok /\ Len(s1_joins) = 2 /\ s1_joins[1].addr # s1_joins[2].addr
    /\ b_pc = "finished"

BcSendStep == b_pc = "send" /\ b_pc' \in {"loop", "finished"}
\* the dispatcher answers a DiscoveryRequest
DiscoveryReplyStep == d_pc = "handle" /\ d_msg.type = "DiscoveryRequest" /\ d_pc' = "done"

\* C11: every DiscoveryResponse sent to a peer P, by the fan-out or in reply
\* to a DiscoveryRequest, carries no PeerInfo with the id P's record has when
\* the list is computed and sent.
C11_NoPeerReceivesItself ==
    [][/\ BcSendStep => heap[b_cur].id \notin get_peer_info_list_excluding(b_pid)
       /\ DiscoveryReplyStep => heap[d_peer].id \notin LastSent'.list]_vars

\* schedule_peerlist_broadcast spawns the new debounce task
TriggerStep == d_pc = "sch_restart" /\ d_pc' = "done"

JoinerAwaitsResponse ==
    /\ d_msg.type = "HandshakeRequest" /\ d_pc \in {"hs_rekey", "hs_respond"}
    /\ n_recv = 2 /\ Registry \ {d_peer} # {}

\* C13: the fan-out task sends no DiscoveryResponse to a joining peer whose
\* HandshakeResponse the dispatcher has not sent yet.
C13_ResponseBeforeDiscovery ==
    [][~(BcSendStep /\ b_cur = d_peer /\ JoinerAwaitsResponse)]_vars

\* C14: with enable_discovery false, the debounced fan-out that follows a join
\* or a leave sends no DiscoveryResponse.
C14_NoFanOutWhenDisabled == ~enable_discovery => b_sent = {}

\* C15: an Authenticated peer to which a Ping of the heartbeat failed to send
\* gets the status Error and is then removed from both indexes of the
\* registry, and the heartbeat goes on to the peers that remain of its round.
C15_FailedPeerMarkedAndRemoved ==
    \A h \in 1..MaxRecords :
        /\ (h_wait = h) ~> (heap[h].status = "Error")
        /\ (h_wait = h) ~> (h \notin Registry)
        /\ (h_wait = h) ~> (h_todo = {})

\* C16: once the clients have fallen silent, every Authenticated peer is
\* eventually transitioned out of Authenticated and removed by the heartbeat
\* and the sweep, every Ping being sent: from some point on the registry holds
\* no Authenticated record.
C16_SilentPeerRemoved == <>[](\A h \in Registry : ~is_authenticated(heap[h]))

\* C17: once a shutdown signal was sent, run() eventually returns, the
\* dispatcher loop having exited and the three periodic tasks having stopped.
C17_RunReturnsAfterShutdown == shutdown_sent ~> (run_pc = "returned")

\* the datagrams the calls of forward_message sent: forwards and broadcasts
FwSends == {x \in fw_out : x.kind \in {"forward", "broadcast"}}

\* C18: of the calls of forward_message with one RouteId, by the dispatcher or
\* by another task, at most one sends anything: every datagram sent under a
\* RouteId was sent by the same call.
C18_OneCallSendsPerRouteId ==
    \A x, y \in FwSends : x.route_id = y.route_id => x.call = y.call

\* a call of forward_message sends the envelope to the record it got for the
\* next hop
FwSendStep(c) == fw[c].pc = "send" /\ fw'[c].pc = "done"

\* C20: forward_message sends an envelope to the next hop only when the record
\* of the next hop is Authenticated.
C20_NextHopAuthenticated ==
    [][\A c \in Callers : FwSendStep(c) => is_authenticated(heap[fw[c].peer])]_vars

\* a call of forward_message caches the RouteId and tests the hop limit
FwCacheStep(c) == fw[c].pc = "cache" /\ fw'[c].pc # "cache"
\* the call fails with the max-hops error, having sent nothing
FailsMaxHops(c) ==
    fw'[c].pc = "done" /\ fw'[c].res = "max_hops" /\ fw_out' = fw_out
\* the call goes on to deliver the envelope: locally, or by the lookup of the
\* next hop that ends in a forward or a broadcast
Delivers(c) ==
    /\ fw'[c].res # "max_hops"
    /\ IF fw[c].env.destination_node = LocalNodeId
       THEN Outcome(fw'[c], "local", NoAddr) \in fw_out'
       ELSE fw'[c].pc = "lookup"

\* C19, as stated: an envelope passed to forward_message with hop_count equal
\* to max_hops is delivered, and one with hop_count equal to max_hops + 1 fails
\* with the max-hops error and is sent to no peer.
C19_DeliveredAtMaxHops ==
    [][\A c \in Callers : FwCacheStep(c) =>
          /\ fw[c].env.hop_count = fw[c].env.max_hops => Delivers(c)
          /\ fw[c].env.hop_count = fw[c].env.max_hops + 1 => FailsMaxHops(c)]_vars

\* C19, amended: the hop count is incremented before it is compared. An
\* envelope passed with hop_count < max_hops, which leaves with hop_count at
\* most max_hops, is delivered with the incremented count; one passed with
\* max_hops <= hop_count, below the largest value of the type, fails with the
\* max-hops error and is sent to no peer; at the largest value the increment
\* overflows, and the call panics or the count wraps to 0 and the envelope is
\* delivered. A call that failed with the max-hops error has sent nothing.
C19_HopLimitAfterIncrement ==
    /\ [][\A c \in Callers : FwCacheStep(c) =>
             LET e == fw[c].env
             IN IF Overflows(e)
                THEN fw'[c].pc = "panicked"
                     \/ (fw'[c].env.hop_count = 0 /\ Delivers(c))
                ELSE IF e.hop_count < e.max_hops
                THEN fw'[c].env.hop_count = e.hop_count + 1 /\ Delivers(c)
                ELSE FailsMaxHops(c)]_vars
    /\ [](\A c \in Callers : fw[c].res = "max_hops" =>
             \A x \in fw_out : x.call # fw[c].call)

\* an envelope was forwarded with hop_count = max_hops, and a call with another
\* envelope has failed with the max-hops error
C19_Witness ==
    /\ \E x \in fw_out : x.kind = "forward" /\ x.hop_count = MaxHops
    /\ \E c \in Callers : fw[c].res = "max_hops" /\ fw[c].env.hop_count = MaxHops + 1

(* ---------------- forward_message: the next hop is missing -------------- *)
NoRouteVia(n) == \A d \in DOMAIN routing_table : routing_table[d].next_hop # n
\* the call found a next hop and get_peer returned no record for it
MissedNextHop(c) ==
    /\ fw[c].next_hop # None
    /\ \/ fw[c].pc \in {"bc_snap", "bc_loop"}
       \/ /\ fw[c].pc = "done"
          /\ ~\E x \in fw_out : x.call = fw[c].call /\ x.kind = "forward"
FwRemoveRoutesStep(c) == fw[c].pc = "rm_routes" /\ fw'[c].pc # "rm_routes"

BroadcastTo(c, out) ==
    {x.to : x \in {y \in out : y.call = fw[c].call /\ y.kind \in {"broadcast", "failed"}}}
\* a call whose lookup found no route finishes its broadcast
NoRouteBroadcastEnds(c) ==
    /\ fw[c].pc \in {"bc_snap", "bc_loop"} /\ fw[c].next_hop = None
    /\ fw'[c].pc = "done"

\* C22: a call of forward_message whose lookup finds no entry for the
\* destination goes to the broadcast and returns Ok. The broadcast takes as
\* its list every record of the NodeId index that is Authenticated at that
\* moment; when the call returns it has tried to send the envelope to the
\* address of every peer of the list whose id differs from the source of the
\* envelope and to no other address, whether or not some of the sends failed,
\* and it has sent nothing as a forward to a next hop.
C22_BroadcastWhenNoRoute ==
    [][\A c \in Callers :
          /\ (fw[c].pc = "lookup" /\ fw'[c].pc # "lookup"
              /\ fw[c].env.destination_node \notin DOMAIN routing_table)
             => fw'[c].pc = "bc_snap"
          /\ (fw[c].pc = "bc_snap" /\ fw'[c].pc # "bc_snap")
             => fw'[c].snap
                = {[addr |-> heap[h].addr, id |-> heap[h].id] :
                     h \in {r \in Range(peers) : is_authenticated(heap[r])}}
          /\ NoRouteBroadcastEnds(c)
             => /\ fw'[c].res = "ok"
                /\ BroadcastTo(c, fw_out')
                   = {p.addr : p \in {q \in fw'[c].snap :
                                         q.id # fw[c].env.source_node}}
                /\ ~\E x \in fw_out' : x.call = fw[c].call /\ x.kind = "forward"]_vars

\* a call found no route and has finished a broadcast in which one send
\* failed and a later one succeeded
C22_Witness ==
    \E c \in Callers :
        /\ fw[c].pc = "done" /\ fw[c].next_hop = None /\ fw[c].res = "ok"
        /\ \E x, y \in fw_out :
              /\ x.call = fw[c].call /\ y.call = fw[c].call
              /\ x.kind = "failed" /\ y.kind = "broadcast"

(* --------------- forward_message: delivery by the next hop ------------- *)
\* everything a call has sent or delivered
OutcomesOf(c, out) == {x \in out : x.call = fw[c].call}
\* the dispatcher's call ends; it was made for a Data datagram whose sender A
\* is Authenticated and is the source of the envelope, the destination B is
\* the id under which the NodeId index holds an Authenticated record (B joined
\* by a HandshakeRequest), the envelope came with hop_count 0 and its RouteId
\* was not in the cache
RoutedDeliveryEnds ==
    /\ d_pc = "forward"
    /\ fw["dispatcher"].pc \notin {"check", "done"} /\ fw'["dispatcher"].pc = "done"
    /\ fw'["dispatcher"].env.hop_count = 1
    /\ is_authenticated(heap[d_peer])
    /\ heap[d_peer].id = fw["dispatcher"].env.source_node
    /\ fw["dispatcher"].env.destination_node \in DOMAIN peers
    /\ is_authenticated(heap[peers[fw["dispatcher"].env.destination_node]])

\* C23: when an Authenticated peer A sends a Data datagram whose envelope has
\* source A, the id of an Authenticated peer B as destination and hop_count
\* 0, the server sends exactly one datagram for it: the envelope, as a forward
\* to the next hop and not as a broadcast, to the address of B, with the same
\* source, destination and route_id and with hop_count 1.
C23_OneForwardToDestination ==
    [][RoutedDeliveryEnds
       => \E x \in fw_out' :
             /\ OutcomesOf("dispatcher", fw_out') = {x}
             /\ x.kind = "forward"
             /\ x.to = heap[peers[fw["dispatcher"].env.destination_node]].addr
             /\ x.hop_count = 1
             /\ x.source_node = fw["dispatcher"].env.source_node
             /\ x.destination_node = fw["dispatcher"].env.destination_node
             /\ x.route_id = fw["dispatcher"].env.route_id]_vars

\* A at one address and B at another are Authenticated, and the envelope A
\* sent for B has gone to B's address as a forward with hop_count 1
C23_Witness ==
    /\ d_pc = "forward" /\ fw["dispatcher"].pc = "done"
    /\ is_authenticated(heap[d_peer])
    /\ heap[d_peer].id = fw["dispatcher"].env.source_node
    /\ \E x \in fw_out :
          /\ OutcomesOf("dispatcher", fw_out) = {x}
          /\ x.kind = "forward" /\ x.hop_count = 1 /\ x.to # d_addr
          /\ x.destination_node \in DOMAIN peers
          /\ heap[peers[x.destination_node]].addr = x.to
          /\ is_authenticated(heap[peers[x.destination_node]])

(* ----------------------- RoutingTable: add_route ----------------------- *)
\* the entry of destination d changed in this step, and d had one before
EntryReplaced(d) ==
    /\ d \in DOMAIN routing_table /\ d \in DOMAIN routing_table'
    /\ routing_table'[d] # routing_table[d]
\* what update_routing_table has to leave behind
TableAfter(rt, u) ==
    IF u.old = NoEntry \/ u.distance < u.old.distance
    THEN [d \in DOMAIN rt \cup {u.destination} |->
            IF d = u.destination
            THEN [next_hop |-> u.next_hop, distance |-> u.distance] ELSE rt[d]]
    ELSE rt

\* C24: update_routing_table(dest, next_hop, distance) writes the entry of
\* dest when dest has no entry or distance is strictly smaller than the stored
\* distance, and leaves the table as it is otherwise, so a route of equal
\* distance never replaces the one learned first; no step replaces the entry
\* of a destination by one of equal or greater distance.
C24_ReplacedIffStrictlyShorter ==
    [][/\ u_call' # NoUpdate /\ (u_call' # u_call \/ routing_table' # routing_table)
          => routing_table' = TableAfter(routing_table, u_call')
       /\ \A d \in TableIds :
             EntryReplaced(d) => routing_table'[d].distance < routing_table[d].distance]_vars

\* the last call replaced an entry by a shorter route through another next hop
C24_Witness ==
    /\ u_call # NoUpdate /\ u_call.old # NoEntry
    /\ u_call.distance < u_call.old.distance
    /\ u_call.next_hop # u_call.old.next_hop
    /\ routing_table[u_call.destination]
       = [next_hop |-> u_call.next_hop, distance |-> u_call.distance]

(* ----------------------- failed handshake requests --------------------- *)
\* the Error datagrams sent to the sender of the current datagram
ErrorsSent(sent) ==
    Cardinality({i \in DOMAIN sent : sent[i].type = "Error" /\ sent[i].to = d_addr})
\* the handling of a HandshakeRequest ends in failure; the sender has a record
HandshakeRequestFails ==
    /\ d_msg.type = "HandshakeRequest" /\ d_peer # None
    /\ d_pc # "done" /\ d_pc' = "done" /\ d_res' = "err"

\* C25: when the handling of a HandshakeRequest fails, whatever the class of
\* the failure, exactly one Error datagram has been sent to the sender, and the
\* sender's record is not Authenticated unless it was before.
C25_FailedRequestOneError ==
    [][HandshakeRequestFails
       => /\ ErrorsSent(d_sent') = 1
          /\ is_authenticated(heap'[d_peer]) => is_authenticated(heap[d_peer])]_vars

(* --------------------------- rendezvous -------------------------------- *)
\* the datagrams sent for the current datagram, the Ack aside
Replies == [i \in {j \in DOMAIN d_sent' : d_sent'[j].type # "Ack"} |-> d_sent'[i]]
\* the P2PConnect arm has handled the current datagram
P2PConnectHandled ==
    /\ d_msg.type = "P2PConnect" /\ d_pc = "handle" /\ d_pc' = "done"
\* C26: when an Authenticated peer R asks for a connection to an id T other
\* than its own, and the NodeId index holds an Authenticated record under T,
\* the server sends exactly two datagrams for the request: a P2PConnect to R
\* with the address of that record, and a P2PConnect to that address with the
\* address of R.
C26_BothSidesToldTheOther ==
    [][(/\ P2PConnectHandled
        /\ is_authenticated(heap[d_peer])
        /\ d_msg.target # None /\ d_msg.target # heap[d_peer].id
        /\ d_msg.target \in DOMAIN peers
        /\ is_authenticated(heap[peers[d_msg.target]]))
       => LET t == heap[peers[d_msg.target]]
          IN /\ Cardinality(DOMAIN Replies) = 2
             /\ {Replies[i] : i \in DOMAIN Replies}
                = {P2PConnectTo(d_addr, d_msg.target, t.addr),
                   P2PConnectTo(t.addr, heap[d_peer].id, d_addr)}]_vars

\* an Authenticated requester and an Authenticated target at another address
\* have each been sent the address of the other
C26_Witness ==
    /\ d_pc = "done" /\ d_msg.type = "P2PConnect"
    /\ is_authenticated(heap[d_peer])
    /\ d_msg.target \in DOMAIN peers /\ is_authenticated(heap[peers[d_msg.target]])
    /\ heap[peers[d_msg.target]].addr # d_addr
    /\ Len(d_sent) = 2
    /\ d_sent[1].to = d_addr /\ d_sent[1].peer_addr = heap[peers[d_msg.target]].addr
    /\ d_sent[2].to = heap[peers[d_msg.target]].addr /\ d_sent[2].peer_addr = d_addr

\* C27: the server sends a P2PConnect only when the record of the requester
\* and the record of the target are both Authenticated.
C27_OnlyBetweenAuthenticated ==
    [][(P2PConnectHandled
        /\ \E i \in DOMAIN d_sent' : d_sent'[i].type = "P2PConnect")
       => /\ is_authenticated(heap[d_peer])
          /\ d_msg.target \in DOMAIN peers
          /\ is_authenticated(heap[peers[d_msg.target]])]_vars

\* the datagram being handled is a Disconnect of an address whose last
\* datagram was a Disconnect that was handled
SecondDisconnect == d_msg.type = "Disconnect" /\ l2.pre # <<>>
\* C28, as stated: the step that ends the handling of a second Disconnect of
\* an address leaves the registry (both indexes), the routing table, the task
\* of the fan-out and the recorded exclude id as the Disconnect found them
\* when it was received.
C28_SecondDisconnectNoOp ==
    [][(SecondDisconnect /\ d_pc # "done" /\ d_pc' = "done")
         => LeaveState' = l2.pre[1]]_vars

(* ------------------- retransmitted acknowledged datagrams --------------- *)
\* the datagram being handled asks for an Ack and was handled without an error
\* before: a retransmission
Retransmitted == d_msg.requires_ack /\ [addr |-> d_addr, msg |-> d_msg] \in handled
\* C29, as stated for the HandshakeRequest: the second delivery of a
\* HandshakeRequest whose first delivery succeeded is handled without an
\* error and is answered with no Error.
C29_RetransmissionHasNoEffect ==
    (d_pc = "done" /\ d_msg.type = "HandshakeRequest" /\ Retransmitted)
    => /\ ~SentError
       /\ d_res = "ok"

(* ---------------------- the two indexes of the registry ----------------- *)
\* C30, as stated, in the states in which no add_peer, no remove_peer and no
\* sweep is between its two writes: the NodeId index and the address index
\* hold the same records.
C30_IndexesHoldSameRecords ==
    Quiescent => Range(peers) = Range(peers_by_addr)

(* ------------------- the exclude id of the fan-out ---------------------- *)
\* C31, as stated: a fan-out sends no DiscoveryResponse to the peer whose id
\* is the exclude id that the most recent call of schedule_peerlist_broadcast
\* had recorded when the timer of the fan-out elapsed.
C31_ExcludedPeerNotSent ==
    [][BcSendStep => ~IsExcluded(trig.fired, b_pid)]_vars

(* --------------- the direct route of a HandshakeRequest ----------------- *)
\* C32, as stated: when the handling of a HandshakeRequest fails, the routing
\* table is what it was when the request was received.
C32_RejectedRequestLeavesTable ==
    [][HandshakeRequestFails => routing_table' = d_pre.routing_table[1]]_vars

(* ------------------------- a peer that leaves --------------------------- *)
\* the handling of a Disconnect whose source was Authenticated ends
DisconnectOfAuthenticatedEnds ==
    /\ d_msg.type = "Disconnect" /\ d_pre.authenticated
    /\ d_pc # "done" /\ d_pc' = "done"
\* C33, as stated: when the handling of the Disconnect of an Authenticated
\* peer X ends, the record of X is in neither index, the routing table has no
\* entry for X and none through X, and a fan-out is pending with no exclude id.
C33_LeaverGoneAndFanOutScheduled ==
    [][DisconnectOfAuthenticatedEnds
       => /\ d_peer \notin Range(peers') \cup Range(peers_by_addr')
          /\ heap[d_peer].id \notin DOMAIN routing_table'
          /\ \A d \in DOMAIN routing_table' :
                 routing_table'[d].next_hop # heap[d_peer].id
          /\ b_pc' = "sleep" /\ broadcast_exclude_id' = None]_vars

(* ------------------ RoutingTable: the two removals ---------------------- *)
\* the table holds the entries of `before` whose destination is in `kept`,
\* each with its next hop and distance, and no other entry
KeepsExactly(before, kept) ==
    /\ DOMAIN routing_table = kept
    /\ \A d \in kept : routing_table[d] = before[d]
\* C34: after remove_node_routes(n) the table holds the entries it held before
\* whose destination is not n and whose next hop is not n, unchanged, and no
\* other; after remove_route(n) it holds every entry it held before but the
\* one of destination n, those whose next hop is n among them.
C34_RemovalsAreIndependent ==
    LET n == r_call.node_id
        before == r_call.before
    IN /\ r_call.op = "remove_node_routes"
          => KeepsExactly(before, {d \in DOMAIN before : d # n /\ before[d].next_hop # n})
       /\ r_call.op = "remove_route"
          => KeepsExactly(before, DOMAIN before \ {n})

\* remove_node_routes(n) found the entry of n, an entry of another destination
\* through n and an entry that has nothing to do with n, and left the last
C34_Witness ==
    /\ r_call.op = "remove_node_routes"
    /\ r_call.node_id \in DOMAIN r_call.before
    /\ \E d \in DOMAIN r_call.before :
           d # r_call.node_id /\ r_call.before[d].next_hop = r_call.node_id
    /\ routing_table # <<>>

(* -------------- forward_message: failure at the hop limit --------------- *)
\* the call fails at the hop limit
FailsAtHopLimit(c) ==
    fw[c].pc = "cache" /\ fw'[c].pc = "done" /\ fw'[c].res = "max_hops"
\* the call finds its RouteId in the cache
FindsCached(c) ==
    fw[c].pc = "check" /\ fw'[c] # fw[c] /\ fw[c].env.route_id \in message_cache
\* the forward path has returned the max-hops error to the Data arm, which
\* returns
FailureReturns ==
    d_pc = "forward" /\ fw["dispatcher"].res = "max_hops" /\ d_pc' = "done"

\* C35: a call of forward_message that fails at the hop limit sends no
\* datagram: it forwards nothing, broadcasts nothing, and the Data arm that
\* made it returns the error with no reply to the sender. The step that fails
\* leaves the RouteId in the cache with a fresh stamp, an entry leaves the
\* cache only when the cleanup task finds it 300 seconds old, and a call that
\* finds its RouteId in the cache ends with Ok, having sent, delivered and
\* cached nothing.
C35_HopLimitFailureSilentAndCached ==
    [][/\ \A c \in Callers :
            /\ FailsAtHopLimit(c) =>
                 /\ fw_out' = fw_out /\ d_sent' = d_sent
                 /\ fw[c].env.route_id \in message_cache' \ cache_old'
            /\ fw[c].res = "max_hops" => OutcomesOf(c, fw_out) = {}
            /\ FindsCached(c) =>
                 /\ fw'[c] = [fw[c] EXCEPT !.pc = "done", !.res = "ok"]
                 /\ fw_out' = fw_out /\ d_sent' = d_sent
                 /\ message_cache' = message_cache
       /\ FailureReturns => d_res' = "err" /\ d_sent' = d_sent
       /\ message_cache \ cache_old \subseteq message_cache']_vars

\* the call of the task failed at the hop limit, and the dispatcher's only
\* call, for a later envelope with the same RouteId that had hops left, has
\* ended with Ok and without an outcome
C35_Witness ==
    /\ fw["task"].pc = "done" /\ fw["task"].res = "max_hops"
    /\ n_calls["dispatcher"] = 1
    /\ fw["dispatcher"].pc = "done" /\ fw["dispatcher"].res = "ok"
    /\ fw["dispatcher"].env.route_id = fw["task"].env.route_id
    /\ fw["dispatcher"].env.hop_count < fw["dispatcher"].env.max_hops
    /\ OutcomesOf("dispatcher", fw_out) = {}
    /\ fw_out = {}

(* ------------------- handle_message: the Ack --------------------------- *)
\* the positions of the dispatcher before the match on message_type
BeforeMatch == {"recv", "add_check", "add_ins_peers", "add_ins_addr", "ack"}
\* the datagram in hand resolved to a record and asks for an Ack, and the
\* match on its type has begun or has ended
MatchOfAcked == d_pc \notin BeforeMatch /\ d_peer # None /\ d_msg.requires_ack
AcksSent == {i \in DOMAIN d_sent : d_sent[i].type = "Ack"}

\* C36: a datagram with requires_ack from an address that resolves to a
\* record has the send of one Ack tried before the match on its type begins:
\* the step of the Ack changes no record, index or route, and the match is
\* entered from it alone. When the send succeeded, the datagrams sent for the
\* inbound one hold exactly one Ack, the first of them, to the source and with
\* ack_for the datagram; that stays so when the handler ends with an error.
\* When the send failed no Ack was sent, and the match follows all the same.
\* A datagram that asks for no Ack gets none.
C36_OneAckBeforeHandler ==
    /\ [](MatchOfAcked =>
            /\ ack_res \in {"sent", "failed"}
            /\ ack_res = "sent" =>
                 AcksSent = {1} /\ d_sent[1] = AckTo(d_addr, d_msg)
            /\ ack_res = "failed" => AcksSent = {})
    /\ [](~d_msg.requires_ack => AcksSent = {} /\ ack_res = "none")
    /\ [][/\ d_pc = "ack" =>
               /\ d_pc' = "handle" /\ d_peer # None
               /\ UNCHANGED <<regVars, heap, routing_table, bVars>>
          /\ d_pc # "handle" /\ d_pc' = "handle" /\ d_msg'.requires_ack =>
               d_pc = "ack"]_vars

\* a HandshakeRequest that asked for an Ack was refused with an error after
\* its Ack was sent
C36_Witness ==
    /\ d_pc = "done" /\ d_res = "err" /\ d_msg.type = "HandshakeRequest"
    /\ MatchOfAcked /\ ack_res = "sent"
    /\ Len(d_sent) = 2 /\ d_sent[1] = AckTo(d_addr, d_msg) /\ d_sent[2].type = "Error"

\* the send of the Ack failed, and the handshake was completed all the same
C36_WitnessAckFailed ==
    /\ d_pc = "done" /\ d_res = "ok" /\ d_msg.type = "HandshakeRequest"
    /\ MatchOfAcked /\ ack_res = "failed"
    /\ is_authenticated(heap[d_peer])
    /\ Len(d_sent) = 1 /\ d_sent[1].type = "HandshakeResponse"

(* ------------- departures and the broadcast scheduler ------------------ *)
\* a debounce timer is armed or has just elapsed: the fan-out that follows
\* takes its list of the Authenticated peers after this state
FanOutScheduled == b_pc \in {"sleep", "snap"}
\* the source of the datagram in hand has left the Authenticated set, and no
\* fan-out has taken its list since
LeftAndNotListed == SourceLeft /\ ~d_pre.listed

\* C37: whenever a peer has left the Authenticated set, by a Disconnect or
\* by a status Error that the sweep then removes, the broadcast scheduler is
\* triggered afterwards, so that a fan-out to the remaining peers follows.
C37_DepartureSchedulesFanOut == LeftAndNotListed ~> FanOutScheduled

(* ------------- a Disconnect and the peers at other addresses ------------ *)
\* the record at the address b, its keys in the NodeId index and the routes
\* to and through its id are after the step what they were before it
PeerAtUntouched(b) ==
    LET h == peers_by_addr[b]
    IN /\ b \in DOMAIN peers_by_addr' /\ peers_by_addr'[b] = h
       /\ heap'[h] = heap[h]
       /\ \A k \in DOMAIN peers :
            peers[k] = h => k \in DOMAIN peers' /\ peers'[k] = h
       /\ \A d \in DOMAIN routing_table :
            (d = heap[h].id \/ routing_table[d].next_hop = heap[h].id) =>
                d \in DOMAIN routing_table' /\ routing_table'[d] = routing_table[d]
\* a step of the handling of a Disconnect
DisconnectStep == d_msg.type = "Disconnect" /\ d_pc # "recv"

\* C38: no step of the handling of a Disconnect from the address a changes
\* the record registered at another address, its entries in the two indexes
\* or the routes to and through its id, whatever HandshakeResponse came from
\* a before.
C38_DisconnectTouchesOwnAddressOnly ==
    [][DisconnectStep =>
          \A b \in DOMAIN peers_by_addr \ {d_addr} : PeerAtUntouched(b)]_vars

(* ---------------- the periodic tasks and the dispatcher ---------------- *)
\* C39: under every interleaving of the dispatcher, the heartbeat and the
\* sweep, a Ping that failed to send included, no task waits for a lock for
\* ever: the heartbeat that waits for the write lock of a record gets it, a
\* sweep that has begun ends, and the dispatcher finishes the datagram in hand
\* and is back at receive_from.
C39_NoTaskBlocksForever ==
    /\ (h_wait # None) ~> (h_wait = None)
    /\ (s_pc # "idle") ~> (s_pc = "idle")
    /\ (d_pc # "recv") ~> (d_pc = "recv")

(* --------------- forward_message: the width of hop_count --------------- *)
\* the hop_count an envelope came with, from the one it was sent with: the
\* increment is an addition in the width of the type
ArrivalHopCount(x) == (x.hop_count + HopLimit - 1) % HopLimit

\* C40: whatever hop_count an envelope carries, the largest value of the type
\* included, an envelope that forward_message forwards or broadcasts came with
\* hop_count < max_hops, and a call for an envelope that came with
\* max_hops <= hop_count neither goes on to the lookup of the next hop nor
\* delivers the envelope.
C40_NoForwardAtOrOverLimit ==
    /\ [](\A x \in FwSends : ArrivalHopCount(x) < MaxHops)
    /\ [][\A c \in Callers :
             FwCacheStep(c) /\ fw[c].env.max_hops <= fw[c].env.hop_count =>
                 fw'[c].pc # "lookup" /\ fw_out' = fw_out]_vars

====
